---- MODULE Spec2Model ----
(***************************************************************************)
(* Model of the remote annotation client scripts/tss.py and of the two    *)
(* handlers of scripts/controlnet_ui/controlnet_ui_group.py that use it   *)
(* (run_annotator, refresh_all_models).                                    *)
(*                                                                         *)
(* Conventions.  A Python value that may be None is a sequence of length  *)
(* at most one: <<>> is None, <<v>> is the value v.  A Python str that    *)
(* the code inspects is a sequence of one-character strings.  An HTTP     *)
(* exchange is one record [kind, code, data]: kind "raise" is requests    *)
(* raising (connection error, timeout), "falsy" a response with status    *)
(* >= 400 (bool(resp) is False), "malformed" a truthy response whose      *)
(* body is not JSON or has no 'code' key, "json" a truthy response with   *)
(* the envelope {code, data}.                                              *)
(***************************************************************************)
EXTENDS Integers, Sequences, FiniteSets, TLC

VARIABLES
    \* ---- opts / clock (get_tushuashua_token)
    tu_token,        \* opts."tu-token": <<>> when the attribute is absent, else <<[token, expire]>>
    tu_keys,         \* the keys the stored value has; None when the stored value is null
    now,             \* time.time() as seen by get_tushuashua_token
    token_ret,       \* None before any call, else <<[at, value, error]>>: the call at time
                     \* 'at' returned value, or was left by the exception 'error'
    \* ---- tss.cache and the catalog fetches
    cache,           \* tss.cache: mudules, models: None or the cached payload; init: 0 or 1
    fetch_cat,       \* category of the last catalog fetch ("none" before any)
    fetch_how,       \* how the remote call of the last catalog fetch ended (FetchClass)
    fetch_out,       \* outcome of the last catalog fetch: [raised, error, value]
    fetch_gets,      \* number of GETs the last catalog fetch sent
    last_good,       \* history: per category, what the latest successful fetch returned
    fetch_resp,      \* history: the exchange the GET of the latest fetch ended in
    fetch_repeat,    \* history: the latest fetch and the one before it were of one category,
                     \* both answered with code 200 and items, and the answers were equal
    \* ---- global_state and the refresh operations
    cn_models,       \* global_state.cn_models (ordered mapping: sequence of <<display, real>>)
    ui_keys,         \* global_state.ui_preprocessor_keys (list of str)
    rpc,             \* position of the running refresh operation
    rop,             \* which refresh operation is running
    rpending,        \* the fetched list or mapping, not yet (fully) published
    rraised,         \* the last refresh operation ended by raising
    rinit,           \* the running operation was called by init_tss_ui
    prev_models,     \* history: cn_models when the running refresh started
    prev_keys,       \* history: ui_preprocessor_keys when the running refresh started
    init_calls,      \* history: how many times init_tss_ui was called
    \* ---- one remote annotation request (handler run_annotator + tss.run_annotator)
    pc,              \* position of the handler
    image,           \* the handler's image argument: <<>> (None) or <<"img">>
    image_key,       \* upload_image_data result for the image
    mask_key,        \* upload_image_data result for the mask
    reg_data,        \* upload_image_data's 'data': None outside the PUT phase
    up_how,          \* history, per upload: how its two requests ended
    task_id,         \* task_id of the submission answer
    submit_how,      \* history: how the submission POST ended (ExchangeClass)
    timeout,         \* the timeout argument of waite_task
    start,           \* waite_task: start
    clock,           \* time.time() during the request
    res,             \* waite_task's return value: None or the poll data
    poll_how,        \* history: how the last status poll ended (ExchangeClass)
    image_url,       \* the selected artifact URL
    tmp_files,       \* files under 'tmp': set of [name, content]
    image_file,      \* tss.run_annotator's return value: None or a file name
    outcome,         \* how the handler ended: "running", "empty", "image", "raised"
    error,           \* the exception that ended the handler ("" if none)
    editor_json,     \* None, or <<the string given to openpose_editor.update>>
    issued,          \* number of requests sent, per kind
    last_req,        \* the last request sent: [kind, target]
    \* ---- two remote annotation requests running at once, from the submission on
    req_pc,          \* per request: position
    req_task,        \* per request: task_id of its submission answer
    req_polled,      \* history, per request: the task ids it asked the status of
    req_url,         \* per request: image_url
    req_bytes,       \* per request: resp.content of its download
    req_ino,         \* per request: the file its open handle refers to
    req_result,      \* per request: the bytes the handler decoded
    req_outcome,     \* per request: "running", "image", "raised"
    req_tmp,         \* the files under 'tmp': set of [name, ino, content]
    \* ---- the settings tss.enable() reads
    xz_ext_enable,   \* opts.xz_ext_enable: <<>> when the attribute is absent, else <<TRUE>> or <<FALSE>>
    worker,          \* cmd_opts.worker
    \* ---- one ControlNetUiGroup and the local branch of its handler
    gradio_compat,   \* the constructor's gradio_compat
    ui_module,       \* value of the Preprocessor dropdown (self.module)
    ui_model,        \* value of the Model dropdown (self.model)
    ui_model_visible,\* the Model dropdown is shown
    ui_pp,           \* value of the Pixel Perfect checkbox
    local_call,      \* None, or <<the arguments of the preprocessor called in-process>>
    prev_call,       \* history: local_call of the click before this one
    json_emitted,    \* history: the strings the preprocessor gave to its callback, in order
    \* ---- the other arguments of the handler run_annotator
    img_size,        \* shape of image["image"]: [h, w]
    pres,            \* value of the resolution slider
    pthr_a,          \* value of the first threshold slider
    pthr_b,          \* value of the second threshold slider
    t2i_w,           \* width of the target canvas
    t2i_h,           \* height of the target canvas
    rm,              \* value of the resize-mode radio
    \* ---- the job descriptor
    job,             \* None, or <<the 'data' posted to /v1/img2img-tasks/cnet>>
    \* ---- ControlNetUiGroup class attributes and the units of one UI build
    batch_input_dir,       \* ControlNetUiGroup.img2img_batch_input_dir: None or <<component>>
    batch_output_dir,      \* ControlNetUiGroup.img2img_batch_output_dir: None or <<component>>
    input_dir_callbacks,   \* img2img_batch_input_dir_callbacks: the units whose closure it holds
    output_dir_callbacks,  \* img2img_batch_output_dir_callbacks: the units whose closure it holds
    input_subscribed,      \* per unit, how many times its subscribe_for_batch_dir ran
    output_subscribed,     \* per unit, how many times its subscribe_for_output_dir ran to its end
    unit_state             \* per unit, how render_and_register_unit ended and what it found set

tokenVars   == <<tu_token, tu_keys, now, token_ret>>
catalogVars == <<cache, fetch_cat, fetch_how, fetch_out, fetch_gets, last_good, fetch_resp,
                 fetch_repeat>>
refreshVars == <<cn_models, ui_keys, rpc, rop, rpending, rraised, rinit, prev_models,
                 prev_keys, init_calls>>
annotVars   == <<pc, image, image_key, mask_key, reg_data, up_how, task_id, submit_how, timeout,
                 start, clock, res, poll_how, image_url, tmp_files, image_file, outcome,
                 error, editor_json, issued, last_req>>
pairVars    == <<req_pc, req_task, req_polled, req_url, req_bytes, req_ino, req_result,
                 req_outcome, req_tmp>>
flagVars    == <<xz_ext_enable, worker>>
uiVars      == <<gradio_compat, ui_module, ui_model, ui_model_visible, ui_pp, local_call,
                 prev_call, json_emitted>>
argVars     == <<img_size, pres, pthr_a, pthr_b, t2i_w, t2i_h, rm>>
jobVars     == <<job>>
batchVars   == <<batch_input_dir, batch_output_dir, input_dir_callbacks, output_dir_callbacks,
                 input_subscribed, output_subscribed, unit_state>>
vars        == <<tokenVars, catalogVars, refreshVars, annotVars, pairVars, flagVars, uiVars, argVars, jobVars, batchVars>>

None      == <<>>
Some(v)   == <<v>>
Truthy(o) == o # <<>>

\* All sequences over S of length at most n.
SeqUpTo(S, n) == UNION {[1..k -> S] : k \in 0..n}

-----------------------------------------------------------------------------
(* HTTP exchanges *)

OkCode == 200
\* An application-level failure code carried by an HTTP-200 envelope.
ErrCode == 500

\* Every exchange a request can end in, with the data of a code-200 answer
\* drawn from D; d0 fills the data field of the exchanges whose data the
\* code never reads.
Responses(D, d0) ==
    {[kind |-> k, code |-> 0, data |-> d0] : k \in {"raise", "falsy", "malformed"}}
    \cup {[kind |-> "json", code |-> ErrCode, data |-> d0]}
    \cup {[kind |-> "json", code |-> OkCode, data |-> d] : d \in D}

-----------------------------------------------------------------------------
(* get_tushuashua_token *)

ExpireMargin == 60
MaxNow == 3
MaxExpire == 64

Bearer == <<"B", "e", "a", "r", "e", "r">>
\* Stored token strings: empty, plain, already prefixed, and near misses.
Tokens == { <<>>,
            <<"a", "b">>,
            Bearer,
            Bearer \o <<" ">>,
            Bearer \o <<" ", "a", "b">>,
            Bearer \o <<"a", "b">> }

\* str.startswith
startswith(s, p) == Len(s) >= Len(p) /\ SubSeq(s, 1, Len(p)) = p

\* get_tushuashua_token with the expiry test made without the safety margin.
get_tushuashua_token_nomargin(opt, t) ==
    IF opt = None THEN <<>>
    ELSE IF t > opt[1].expire THEN <<>>
    ELSE IF startswith(opt[1].token, Bearer) THEN opt[1].token
    ELSE Bearer \o <<" ">> \o opt[1].token

\* get_tushuashua_token() with opts."tu-token" = opt and time.time() = t.
get_tushuashua_token(opt, t) ==
    IF opt = None THEN <<>>
    ELSE IF t > opt[1].expire - ExpireMargin THEN <<>>
    ELSE IF startswith(opt[1].token, Bearer) THEN opt[1].token
    ELSE Bearer \o <<" ">> \o opt[1].token

\* The keys of a credential as the login writes it.
CredentialKeys == {"token", "expire"}

\* The exception that leaves get_tushuashua_token, "" if it returns: line 35
\* subscripts the stored value with 'expire', line 37 with 'token'.
get_tushuashua_token_error(opt, keys, t) ==
    IF opt = None THEN ""
    ELSE IF keys = None THEN "TypeError"
    ELSE IF "expire" \notin keys[1] THEN "KeyError"
    ELSE IF t > opt[1].expire - ExpireMargin THEN ""
    ELSE IF "token" \notin keys[1] THEN "KeyError"
    ELSE ""

TokenInit ==
    /\ tu_token \in {None} \cup {Some([token |-> tk, expire |-> e]) :
                                    tk \in Tokens, e \in 0..MaxExpire}
    /\ tu_keys = Some(CredentialKeys)
    /\ now = 0
    /\ token_ret = None

\* Any stored value: a credential, a part of one, or null.
CredentialInit ==
    /\ tu_token \in {None} \cup {Some([token |-> tk, expire |-> e]) :
                                    tk \in {<<"a", "b">>}, e \in {0, MaxExpire}}
    /\ tu_keys \in {None} \cup {Some(K) : K \in SUBSET CredentialKeys}
    /\ tu_token = None => tu_keys = Some(CredentialKeys)
    /\ now = 0
    /\ token_ret = None

TokenIdle ==
    /\ tu_token = None
    /\ tu_keys = Some(CredentialKeys)
    /\ now = 0
    /\ token_ret = None

\* A call of get_tushuashua_token.
GetToken ==
    /\ LET err == get_tushuashua_token_error(tu_token, tu_keys, now)
       IN  token_ret' = Some([at |-> now, error |-> err,
                              value |-> IF err = "" THEN get_tushuashua_token(tu_token, now)
                                        ELSE <<>>])
    /\ UNCHANGED <<tu_token, tu_keys, now>>
    /\ UNCHANGED <<catalogVars, refreshVars, annotVars, pairVars, flagVars, uiVars, argVars, jobVars, batchVars>>

\* The clock advances.
Tick ==
    /\ now < MaxNow
    /\ now' = now + 1
    /\ UNCHANGED <<tu_token, tu_keys, token_ret>>
    /\ UNCHANGED <<catalogVars, refreshVars, annotVars, pairVars, flagVars, uiVars, argVars, jobVars, batchVars>>

-----------------------------------------------------------------------------
(* The catalog: request_tss, request_mudules, request_models *)

MaxFeedLen == 2

\* The display value of the feed's "empty selection" entry (U+65E0 in the source).
EmptySelection == "wu"

\* Catalog items of category 3: only real_value is read.
ModuleItems == {[display_value |-> "d", real_value |-> r] : r \in {"None", "canny"}}
\* Catalog items of category 4.
ModelItems == { [display_value |-> EmptySelection, real_value |-> "r0"],
                [display_value |-> "None", real_value |-> "r1"],
                [display_value |-> "canny", real_value |-> "r2"] }

\* A truthy 'data' of a catalog answer: shape "ok" has data['items'][<category>],
\* shape "no_items" is a non-empty object without it.
Payloads(Items) ==
    {[shape |-> "ok", items |-> f] : f \in SeqUpTo(Items, MaxFeedLen)}
    \cup {[shape |-> "no_items", items |-> <<>>]}

\* The 'data' of a catalog answer: None (null or {}) or a payload.
CatalogData(Items) == {None} \cup {Some(p) : p \in Payloads(Items)}

\* The exchanges a catalog GET can end in, per category.
ModuleResponses == Responses(CatalogData(ModuleItems), None)
ModelResponses  == Responses(CatalogData(ModelItems), None)
CatalogResponses(cat) == IF cat = "mudules" THEN ModuleResponses ELSE ModelResponses

Ret(v)   == [raised |-> FALSE, error |-> "", value |-> v]
Raise(e) == [raised |-> TRUE, error |-> e, value |-> <<>>]

\* request_tss(api) given the exchange its GET ends in.
request_tss(resp) ==
    IF resp.kind = "raise" THEN Raise("transport")
    ELSE IF resp.kind = "falsy" THEN Ret(None)
    ELSE IF resp.kind = "malformed" THEN Raise("body")
    ELSE IF resp.code = OkCode THEN Ret(resp.data)
    ELSE Ret(None)

\* enable() without the test of the worker flag.
enable_any_process == Truthy(xz_ext_enable) /\ xz_ext_enable[1]

\* enable(): getattr(opts, "xz_ext_enable", False) and not cmd_opts.worker
enable == (Truthy(xz_ext_enable) /\ xz_ext_enable[1]) /\ ~worker

\* The settings of a process: any.
FlagsInit ==
    /\ xz_ext_enable \in {None, Some(FALSE), Some(TRUE)}
    /\ worker \in BOOLEAN

\* The settings of a process that executes remotely.
FlagsRemote ==
    /\ xz_ext_enable = Some(TRUE)
    /\ worker = FALSE

\* The settings of a process without the remote extension.
FlagsLocal ==
    /\ xz_ext_enable = None
    /\ worker = FALSE

\* [item['real_value'] for item in items]
RealValues(items) == [i \in 1..Len(items) |-> items[i].real_value]

\* Ordered mappings (dict): sequences of <<key, value>> in insertion order.
HasKey(d, k) == \E i \in 1..Len(d) : d[i][1] = k
\* d[k] = v: an existing key keeps its position, a new key goes last.
DictSet(d, k, v) ==
    IF HasKey(d, k)
    THEN [i \in 1..Len(d) |-> IF d[i][1] = k THEN <<k, v>> ELSE d[i]]
    ELSE Append(d, <<k, v>>)
\* del d[k]
DictDel(d, k) == SelectSeq(d, LAMBDA e : e[1] # k)
\* d.update(e), and dict(pairs) as the update of the empty mapping
RECURSIVE DictUpdate(_, _)
DictUpdate(d, e) ==
    IF e = <<>> THEN d
    ELSE DictUpdate(DictSet(d, e[1][1], e[1][2]), Tail(e))
DictKeys(d) == [i \in 1..Len(d) |-> d[i][1]]

\* Lines 80-84 with d.setdefault("None", None) in place of the update of
\* line 83: a "None" entry of the feed keeps its value.
ModelMapping_setdefault(items) ==
    LET pairs == [i \in 1..Len(items) |->
                    <<items[i].display_value, Some(items[i].real_value)>>]
        d  == DictUpdate(<<>>, pairs)
        d2 == IF HasKey(d, EmptySelection) THEN DictDel(d, EmptySelection) ELSE d
    IN  IF HasKey(d2, "None") THEN d2 ELSE DictSet(d2, "None", None)

\* Lines 80-84 of request_models: the mapping built from the items.
ModelMapping(items) ==
    LET pairs == [i \in 1..Len(items) |->
                    <<items[i].display_value, Some(items[i].real_value)>>]
        d  == DictUpdate(<<>>, pairs)
        d2 == IF HasKey(d, EmptySelection) THEN DictDel(d, EmptySelection) ELSE d
    IN  DictSet(d2, "None", None)

\* Lines 59-66 and 72-79 without the raise of lines 65 and 78: with no
\* answer and no cached value the fetch goes on with an empty feed.
FetchData_empty(c, cat, resp) ==
    LET r == request_tss(resp)
    IN  IF r.raised THEN [raised |-> TRUE, error |-> r.error, data |-> None, cache |-> c]
        ELSE IF ~Truthy(r.value)
             THEN [raised |-> FALSE, error |-> "",
                   data   |-> IF Truthy(c[cat]) THEN c[cat]
                              ELSE Some([shape |-> "ok", items |-> <<>>]),
                   cache  |-> c]
             ELSE [raised |-> FALSE, error |-> "", data |-> r.value,
                   cache |-> [c EXCEPT ![cat] = r.value]]

\* Lines 59-66 and 72-79 reading the cache first: a cached feed is what the
\* fetch parses, and the fresh answer is stored for the next call.
FetchData_cache_first(c, cat, resp) ==
    LET r == request_tss(resp)
    IN  IF r.raised THEN [raised |-> TRUE, error |-> r.error, data |-> None, cache |-> c]
        ELSE IF ~Truthy(r.value)
             THEN [raised |-> ~Truthy(c[cat]),
                   error  |-> IF Truthy(c[cat]) THEN "" ELSE "request tss failed",
                   data   |-> c[cat], cache |-> c]
             ELSE [raised |-> FALSE, error |-> "",
                   data  |-> IF Truthy(c[cat]) THEN c[cat] ELSE r.value,
                   cache |-> [c EXCEPT ![cat] = r.value]]

\* Lines 59-66 and 72-79: the data to parse and the cache after the fetch.
FetchData(c, cat, resp) ==
    LET r == request_tss(resp)
    IN  IF r.raised THEN [raised |-> TRUE, error |-> r.error, data |-> None, cache |-> c]
        ELSE IF ~Truthy(r.value)
             THEN [raised |-> ~Truthy(c[cat]),
                   error  |-> IF Truthy(c[cat]) THEN "" ELSE "request tss failed",
                   data   |-> c[cat], cache |-> c]
             ELSE [raised |-> FALSE, error |-> "", data |-> r.value,
                   cache |-> [c EXCEPT ![cat] = r.value]]

\* request_mudules() with tss.cache = c: [out |-> outcome, cache |-> cache after].
request_mudules(c, resp) ==
    LET f == FetchData(c, "mudules", resp)
    IN  [cache |-> f.cache,
         out   |-> IF f.raised THEN Raise(f.error)
                   ELSE IF f.data[1].shape # "ok" THEN Raise("KeyError")
                   ELSE Ret(RealValues(f.data[1].items))]

\* request_models() with tss.cache = c.
request_models(c, resp) ==
    LET f == FetchData(c, "models", resp)
    IN  [cache |-> f.cache,
         out   |-> IF f.raised THEN Raise(f.error)
                   ELSE IF f.data[1].shape # "ok" THEN Raise("KeyError")
                   ELSE Ret(ModelMapping(f.data[1].items))]

request_category(cat, c, resp) ==
    IF cat = "mudules" THEN request_mudules(c, resp) ELSE request_models(c, resp)

\* How the remote call of a fetch ended: "ok" is an answer with code 200 and
\* well-formed data; everything else is a failure of the remote call.
FetchClass(resp) ==
    IF resp.kind # "json" THEN resp.kind
    ELSE IF resp.code # OkCode THEN "badcode"
    ELSE IF resp.data = None THEN "nodata"
    ELSE IF resp.data[1].shape # "ok" THEN "noitems"
    ELSE "ok"

CatalogInit ==
    /\ cache = [mudules |-> None, models |-> None, init |-> 0]
    /\ fetch_cat = "none"
    /\ fetch_how = "none"
    /\ fetch_out = Ret(<<>>)
    /\ fetch_gets = 0
    /\ last_good = [mudules |-> None, models |-> None]
    /\ fetch_resp = [kind |-> "none", code |-> 0, data |-> None]
    /\ fetch_repeat = FALSE

\* One call of request_mudules or request_models: request_tss sends its GET
\* once (line 49) and the exchange resp is what comes of it.
Fetch(cat, resp) ==
    LET r == request_category(cat, cache, resp)
    IN  /\ cache' = r.cache
        /\ fetch_gets' = 1
        /\ fetch_cat' = cat
        /\ fetch_how' = FetchClass(resp)
        /\ fetch_out' = r.out
        /\ last_good' = IF FetchClass(resp) = "ok" /\ ~r.out.raised
                        THEN [last_good EXCEPT ![cat] = Some(r.out.value)]
                        ELSE last_good
        /\ fetch_resp' = resp
        /\ fetch_repeat' = /\ cat = fetch_cat
                           /\ fetch_how = "ok"
                           /\ FetchClass(resp) = "ok"
                           /\ resp = fetch_resp

FetchModules ==
    /\ \E resp \in ModuleResponses : Fetch("mudules", resp)
    /\ UNCHANGED <<tokenVars, refreshVars, annotVars, pairVars, flagVars, uiVars, argVars, jobVars, batchVars>>

FetchModels ==
    /\ \E resp \in ModelResponses : Fetch("models", resp)
    /\ UNCHANGED <<tokenVars, refreshVars, annotVars, pairVars, flagVars, uiVars, argVars, jobVars, batchVars>>

-----------------------------------------------------------------------------------------------------------------------------------------------------
(* global_state and the operations that publish a fetch into it:          *)
(* set_ui_preprocessors(True), set_ui_models(True), refresh_all_models    *)
(* (remote branch).  Each runs on the thread of the event that calls it   *)
(* and blocks in the GET of request_*; the steps below are the points     *)
(* between which other threads run, so every state is one a concurrent    *)
(* reader of global_state (lines 303 and 315 of controlnet_ui_group.py)   *)
(* can observe.                                                            *)

RefreshOps == {"set_ui_models", "refresh_all_models", "set_ui_preprocessors"}

CategoryOf(op) == IF op = "set_ui_preprocessors" THEN "mudules" ELSE "models"

\* global_state.cn_models and ui_preprocessor_keys before any refresh.
RefreshInit ==
    /\ cn_models = <<>>
    /\ ui_keys = <<>>
    /\ rpc = "idle"
    /\ rop = "none"
    /\ rpending = <<>>
    /\ rraised = FALSE
    /\ rinit = FALSE
    /\ prev_models = <<>>
    /\ prev_keys = <<>>
    /\ init_calls = 0

\* Lines 88, 109 and 465: the operation starts by clearing the published
\* value; refresh_all_models does so when tss.enable() holds (line 464).
RefreshClear(op) ==
    /\ rpc = "idle"
    /\ op = "refresh_all_models" => enable
    /\ rinit' = FALSE
    /\ rop' = op
    /\ rpc' = "cleared"
    /\ prev_models' = cn_models
    /\ prev_keys' = ui_keys
    /\ cn_models' = IF op = "set_ui_preprocessors" THEN cn_models ELSE <<>>
    /\ ui_keys' = IF op = "set_ui_preprocessors" THEN <<>> ELSE ui_keys
    /\ rraised' = FALSE
    /\ rpending' = <<>>
    /\ UNCHANGED <<init_calls, catalogVars>>
    /\ UNCHANGED <<tokenVars, annotVars, pairVars, flagVars, uiVars, argVars, jobVars, batchVars>>

\* 'p = "none" if p == "None"' of lines 93-94.
KeyOf(p) == IF p = "None" THEN "none" ELSE p

\* Lines 91, 110 and 466: the fetch; an exception ends the operation here.
RefreshFetch ==
    /\ rpc = "cleared"
    /\ \E resp \in CatalogResponses(CategoryOf(rop)) :
         LET r == request_category(CategoryOf(rop), cache, resp)
         IN  /\ cache' = r.cache
             /\ fetch_gets' = 1
             /\ IF r.out.raised
                THEN /\ rpc' = "idle"
                     /\ rraised' = TRUE
                     /\ rinit' = FALSE
                     /\ rpending' = <<>>
                ELSE /\ rpc' = "fetched"
                     /\ rraised' = FALSE
                     /\ rpending' = r.out.value
                     /\ UNCHANGED rinit
    /\ UNCHANGED <<cn_models, ui_keys, rop, prev_models, prev_keys, init_calls,
                   fetch_cat, fetch_how, fetch_out, last_good, fetch_resp, fetch_repeat>>
    /\ UNCHANGED <<tokenVars, annotVars, pairVars, flagVars, uiVars, argVars, jobVars, batchVars>>

\* Lines 111 and 467: cn_models.update(models); back in init_tss_ui,
\* line 119 sets cache['init'].
PublishModels ==
    /\ rpc = "fetched"
    /\ rop \in {"set_ui_models", "refresh_all_models"}
    /\ cn_models' = DictUpdate(cn_models, rpending)
    /\ rpc' = "idle"
    /\ rpending' = <<>>
    /\ rinit' = FALSE
    /\ cache' = IF rinit THEN [cache EXCEPT !["init"] = 1] ELSE cache
    /\ UNCHANGED <<ui_keys, rop, rraised, prev_models, prev_keys, init_calls,
                   fetch_cat, fetch_how, fetch_out, fetch_gets, last_good,
                   fetch_resp, fetch_repeat>>
    /\ UNCHANGED <<tokenVars, annotVars, pairVars, flagVars, uiVars, argVars, jobVars, batchVars>>

\* Lines 92-95: one round of the loop that appends the fetched names, or
\* its end, when no name is left; in init_tss_ui the end of the loop is
\* followed by set_ui_models(True) (line 118), which starts by its clear.
AppendKey ==
    /\ rpc = "fetched"
    /\ rop = "set_ui_preprocessors"
    /\ IF rpending = <<>>
       THEN IF rinit
            THEN /\ rop' = "set_ui_models"
                 /\ rpc' = "cleared"
                 /\ prev_models' = cn_models
                 /\ prev_keys' = ui_keys
                 /\ cn_models' = <<>>
                 /\ UNCHANGED <<ui_keys, rpending>>
            ELSE /\ rpc' = "idle"
                 /\ UNCHANGED <<cn_models, ui_keys, rop, rpending, prev_models, prev_keys>>
       ELSE /\ ui_keys' = Append(ui_keys, KeyOf(Head(rpending)))
            /\ rpending' = Tail(rpending)
            /\ rpc' = "fetched"
            /\ UNCHANGED <<cn_models, rop, prev_models, prev_keys>>
    /\ UNCHANGED <<rraised, rinit, init_calls, catalogVars>>
    /\ UNCHANGED <<tokenVars, annotVars, pairVars, flagVars, uiVars, argVars, jobVars, batchVars>>

\* global_state.update_cn_models(): the mapping of the model files found
\* on disk, after "None".
LocalModels == <<<<"None", None>>, <<"m1", Some("models/m1.pth")>>>>

\* Lines 464 and 474 of controlnet_ui_group.py: refresh_all_models when
\* tss.enable() is false.
RefreshAllLocal ==
    /\ rpc = "idle"
    /\ ~enable
    /\ cn_models' = LocalModels
    /\ rop' = "refresh_all_models"
    /\ rraised' = FALSE
    /\ UNCHANGED <<ui_keys, rpc, rpending, rinit, prev_models, prev_keys, init_calls,
                   catalogVars>>
    /\ UNCHANGED <<tokenVars, annotVars, pairVars, flagVars, uiVars, argVars, jobVars, batchVars>>

\* How many calls of init_tss_ui are followed.
MaxInitCalls == 3

\* Lines 114-117 without the test of the 'init' marker.
InitTssUi_every_time ==
    /\ rpc = "idle"
    /\ init_calls < MaxInitCalls
    /\ init_calls' = init_calls + 1
    /\ IF enable
       THEN /\ rinit' = TRUE
            /\ rop' = "set_ui_preprocessors"
            /\ rpc' = "cleared"
            /\ prev_models' = cn_models
            /\ prev_keys' = ui_keys
            /\ ui_keys' = <<>>
            /\ rraised' = FALSE
            /\ rpending' = <<>>
            /\ UNCHANGED cn_models
       ELSE UNCHANGED <<cn_models, ui_keys, rpc, rop, rpending, rraised, rinit, prev_models,
                        prev_keys>>
    /\ UNCHANGED catalogVars
    /\ UNCHANGED <<tokenVars, annotVars, pairVars, flagVars, uiVars, argVars, jobVars, batchVars>>

\* Lines 114-117: init_tss_ui; with tss.enable() and no 'init' marker in
\* the cache it calls set_ui_preprocessors(True), which starts by its
\* clear, else it does nothing.
InitTssUi ==
    /\ rpc = "idle"
    /\ init_calls < MaxInitCalls
    /\ init_calls' = init_calls + 1
    /\ IF enable /\ cache["init"] = 0
       THEN /\ rinit' = TRUE
            /\ rop' = "set_ui_preprocessors"
            /\ rpc' = "cleared"
            /\ prev_models' = cn_models
            /\ prev_keys' = ui_keys
            /\ ui_keys' = <<>>
            /\ rraised' = FALSE
            /\ rpending' = <<>>
            /\ UNCHANGED cn_models
       ELSE UNCHANGED <<cn_models, ui_keys, rpc, rop, rpending, rraised, rinit, prev_models,
                        prev_keys>>
    /\ UNCHANGED catalogVars
    /\ UNCHANGED <<tokenVars, annotVars, pairVars, flagVars, uiVars, argVars, jobVars, batchVars>>

-----------------------------------------------------------------------------
(* One remote annotation request: the handler run_annotator of            *)
(* controlnet_ui_group.py (tss.enable() true) and tss.run_annotator with  *)
(* upload_image_data and waite_task.  One action per HTTP request; the    *)
(* clock moves only in time.sleep.                                         *)

WaitTimeout == 300
SleepSecs == 2
StatusSuccess == 10
StatusFailure == 0 - 1
\* BUCKET of line 21
BUCKET == "xingzheaidraw"
MaxImages == 2

OssKeys == {"k1"}
PutUrls == {"s1", "s2"}
TaskIds == {"t1", "t2"}
\* Status values of a poll answer: two that are not terminal, and the two terminal ones.
Statuses == {0, 5, StatusSuccess, StatusFailure}
\* Artifact URLs: host and path segments.
Urls == { [host |-> "x", path |-> <<"out", "a.png">>],
          [host |-> "y", path |-> <<"a.png">>] }
\* Downloaded bytes: a decodable image or not.
Contents == {"png", "junk"}
\* A list field of the poll data: absent (None) or a list of URLs.
ImageLists == {None} \cup {Some(l) : l \in SeqUpTo(Urls, MaxImages)}

RegData  == [url : PutUrls, oss_key : OssKeys]
TaskData == [task_id : TaskIds]
PollData == [status : Statuses, hig_images : ImageLists, images : ImageLists]
NoPollData == [status |-> 0, hig_images |-> None, images |-> None]

RegResponses    == Responses(RegData, CHOOSE d \in RegData : TRUE)
SubmitResponses == Responses(TaskData, CHOOSE d \in TaskData : TRUE)
PollResponses   == Responses(PollData, NoPollData)

RequestKinds == {"reg_image", "put_image", "reg_mask", "put_mask", "submit", "poll",
                 "download"}

\* How an exchange with a JSON envelope ended, as the code tells the cases apart.
ExchangeClass(resp) ==
    IF resp.kind # "json" THEN resp.kind
    ELSE IF resp.code # OkCode THEN "badcode"
    ELSE "ok"

\* os.path.basename(urlparse(image_url).path)
basename(url) == IF url.path = <<>> THEN "" ELSE url.path[Len(url.path)]
\* os.path.join('tmp', name)
TmpPath(name) == <<"tmp", name>>

AnnotInit ==
    /\ pc = "start"
    /\ image \in {None, Some("img")}
    /\ image_key = None
    /\ mask_key = None
    /\ reg_data = None
    /\ up_how = [w \in {"image", "mask"} |->
                    [reg |-> "none", put |-> "none"]]
    /\ task_id = None
    /\ submit_how = "none"
    /\ timeout = WaitTimeout
    /\ start = 0
    /\ clock = 0
    /\ res = None
    /\ poll_how = "none"
    /\ image_url = None
    /\ tmp_files = {}
    /\ image_file = None
    /\ outcome = "running"
    /\ error = ""
    /\ editor_json = None
    /\ issued = [k \in RequestKinds |-> 0]
    /\ last_req = [kind |-> "none", target |-> None]

AnnotIdle ==
    /\ AnnotInit
    /\ image = None

\* The request of kind k to target t is sent.
Send(k, t) ==
    /\ issued' = [issued EXCEPT ![k] = @ + 1]
    /\ last_req' = [kind |-> k, target |-> t]

\* The handler ends: by returning the empty update, by returning the image,
\* or by an exception that leaves it.  The returns of lines 574-578,
\* 584-588 and 596-602 give openpose_editor.update the empty string.
Finish(how, err) ==
    /\ pc' = "done"
    /\ outcome' = how
    /\ error' = err
    /\ editor_json' = IF how = "raised" THEN None ELSE Some("")

\* Lines 573-578 and 580 of controlnet_ui_group.py: no image, no work;
\* else tss.enable() chooses between the remote and the local branch.
HandlerStart ==
    /\ pc = "start"
    /\ IF image = None
       THEN Finish("empty", "")
       ELSE /\ pc' = IF enable THEN "reg_image" ELSE "local"
            /\ UNCHANGED <<outcome, error, editor_json>>
    /\ UNCHANGED <<image, image_key, mask_key, reg_data, up_how, task_id, submit_how, timeout, start, clock,
                   res, poll_how, image_url, tmp_files, image_file, issued, last_req>>
    /\ UNCHANGED <<tokenVars, catalogVars, refreshVars, pairVars, flagVars, uiVars, argVars, jobVars, batchVars>>

\* Lines 183-187 with 'and' in place of 'or' in the test of line 186.
UploadReturns_and(which, key) ==
    IF which = "image"
    THEN /\ image_key' = key
         /\ pc' = "reg_mask"
         /\ UNCHANGED <<mask_key, outcome, error, editor_json>>
    ELSE /\ mask_key' = key
         /\ UNCHANGED image_key
         /\ IF ~Truthy(image_key) /\ ~Truthy(key)
            THEN Finish("raised", "upload image file failed")
            ELSE /\ pc' = "submit"
                 /\ UNCHANGED <<outcome, error, editor_json>>

\* Lines 183-187 with a second attempt of an upload that returned no key.
UploadReturns_retry(which, key) ==
    IF ~Truthy(key) /\ issued["reg_" \o which] + issued["put_" \o which] < 2
    THEN /\ pc' = "reg_" \o which
         /\ UNCHANGED <<image_key, mask_key, outcome, error, editor_json>>
    ELSE IF which = "image"
    THEN /\ image_key' = key
         /\ pc' = "reg_mask"
         /\ UNCHANGED <<mask_key, outcome, error, editor_json>>
    ELSE /\ mask_key' = key
         /\ UNCHANGED image_key
         /\ IF ~Truthy(image_key) \/ ~Truthy(key)
            THEN Finish("raised", "upload image file failed")
            ELSE /\ pc' = "submit"
                 /\ UNCHANGED <<outcome, error, editor_json>>

\* Lines 183-187 of tss.py with the test of the image key made before the
\* mask is uploaded.
UploadReturns_image_first(which, key) ==
    IF which = "image"
    THEN /\ image_key' = key
         /\ UNCHANGED mask_key
         /\ IF ~Truthy(key)
            THEN Finish("raised", "upload image file failed")
            ELSE /\ pc' = "reg_mask"
                 /\ UNCHANGED <<outcome, error, editor_json>>
    ELSE /\ mask_key' = key
         /\ UNCHANGED image_key
         /\ IF ~Truthy(image_key) \/ ~Truthy(key)
            THEN Finish("raised", "upload image file failed")
            ELSE /\ pc' = "submit"
                 /\ UNCHANGED <<outcome, error, editor_json>>

\* upload_image_data returned key (None: no key) for the image or the mask:
\* lines 183-187 of tss.py.
UploadReturns(which, key) ==
    IF which = "image"
    THEN /\ image_key' = key
         /\ pc' = "reg_mask"
         /\ UNCHANGED <<mask_key, outcome, error, editor_json>>
    ELSE /\ mask_key' = key
         /\ UNCHANGED image_key
         /\ IF ~Truthy(image_key) \/ ~Truthy(key)
            THEN Finish("raised", "upload image file failed")
            ELSE /\ pc' = "submit"
                 /\ UNCHANGED <<outcome, error, editor_json>>

\* Lines 151-155 and 163-164: the registration POST of upload_image_data.
UploadRegister(which) ==
    /\ pc = "reg_" \o which
    /\ Send("reg_" \o which, "/v1/oss-files")
    /\ \E resp \in RegResponses :
         /\ up_how' = [up_how EXCEPT ![which].reg = ExchangeClass(resp)]
         /\ CASE ExchangeClass(resp) \in {"raise", "malformed"} ->
                   /\ Finish("raised", resp.kind)
                   /\ UNCHANGED <<image_key, mask_key, reg_data>>
              [] ExchangeClass(resp) \in {"falsy", "badcode"} ->
                   /\ UploadReturns(which, None)
                   /\ UNCHANGED reg_data
              [] ExchangeClass(resp) = "ok" ->
                   /\ reg_data' = Some(resp.data)
                   /\ pc' = "put_" \o which
                   /\ UNCHANGED <<image_key, mask_key, outcome, error, editor_json>>
    /\ UNCHANGED <<image, task_id, submit_how, timeout, start, clock, res, poll_how, image_url,
                   tmp_files, image_file>>
    /\ UNCHANGED <<tokenVars, catalogVars, refreshVars, pairVars, flagVars, uiVars, argVars, jobVars, batchVars>>

\* Lines 156-162: the PUT of the bytes to the URL the registration returned.
UploadPut(which) ==
    /\ pc = "put_" \o which
    /\ Send("put_" \o which, reg_data[1].url)
    /\ reg_data' = None
    /\ \E kind \in {"raise", "falsy", "truthy"} :
         /\ up_how' = [up_how EXCEPT ![which].put = kind]
         /\ CASE kind = "raise" ->
                   /\ Finish("raised", "raise")
                   /\ UNCHANGED <<image_key, mask_key>>
              [] kind = "falsy" -> UploadReturns(which, None)
              [] kind = "truthy" -> UploadReturns(which, Some(reg_data[1].oss_key))
    /\ UNCHANGED <<image, task_id, submit_how, timeout, start, clock, res, poll_how, image_url,
                   tmp_files, image_file>>
    /\ UNCHANGED <<tokenVars, catalogVars, refreshVars, pairVars, flagVars, uiVars, argVars, jobVars, batchVars>>

\* tss.run_annotator returns None, and the handler (lines 583-588 of
\* controlnet_ui_group.py) returns the empty update.
ReturnsNone ==
    /\ image_file' = None
    /\ Finish("empty", "")

\* Lines 189-200 of tss.py: the job descriptor, made of the keys and of the
\* handler's arguments as they came.
JobData ==
    [image |-> <<BUCKET, image_key[1]>>, mask |-> <<BUCKET, mask_key[1]>>,
     module |-> ui_module, annotator_resolution |-> pres,
     pthr_a |-> pthr_a, pthr_b |-> pthr_b, t2i_w |-> t2i_w, t2i_h |-> t2i_h,
     pp |-> ui_pp, rm |-> rm]

\* Lines 201-205 of tss.py: the submission POST; on code 200 waite_task is
\* entered (line 168).
Submit ==
    /\ pc = "submit"
    /\ Send("submit", "/v1/img2img-tasks/cnet")
    /\ job' = Some(JobData)
    /\ \E resp \in SubmitResponses :
         /\ submit_how' = ExchangeClass(resp)
         /\ CASE ExchangeClass(resp) \in {"raise", "malformed"} ->
                   /\ Finish("raised", resp.kind)
                   /\ UNCHANGED <<task_id, start, image_file>>
              [] ExchangeClass(resp) \in {"falsy", "badcode"} ->
                   /\ ReturnsNone
                   /\ UNCHANGED <<task_id, start>>
              [] ExchangeClass(resp) = "ok" ->
                   /\ task_id' = Some(resp.data.task_id)
                   /\ start' = clock
                   /\ pc' = "wait"
                   /\ UNCHANGED <<outcome, error, editor_json, image_file>>
    /\ UNCHANGED <<image, image_key, mask_key, reg_data, up_how, timeout, clock, res, poll_how,
                   image_url, tmp_files>>
    /\ UNCHANGED <<tokenVars, catalogVars, refreshVars, pairVars, flagVars, uiVars, argVars, batchVars>>

\* Lines 169-171 with the sleep of line 170 after the GET instead of before
\* it: the first poll follows the submission at once.
WaitSleep_poll_first ==
    /\ pc = "wait"
    /\ IF clock - start < timeout
       THEN /\ clock' = IF issued["poll"] = 0 THEN clock ELSE clock + SleepSecs
            /\ pc' = "poll"
            /\ UNCHANGED <<image_file, outcome, error, editor_json>>
       ELSE /\ ReturnsNone
            /\ UNCHANGED clock
    /\ UNCHANGED <<image, image_key, mask_key, reg_data, up_how, task_id, submit_how, timeout, start,
                   res, poll_how, image_url, tmp_files, issued, last_req>>
    /\ UNCHANGED <<tokenVars, catalogVars, refreshVars, pairVars, flagVars, uiVars, argVars, jobVars, batchVars>>

\* Lines 169-170 with the loop test 'time.time() - start <= timeout'.
WaitSleep_inclusive ==
    /\ pc = "wait"
    /\ IF clock - start <= timeout
       THEN /\ clock' = clock + SleepSecs
            /\ pc' = "poll"
            /\ UNCHANGED <<image_file, outcome, error, editor_json>>
       ELSE /\ ReturnsNone
            /\ UNCHANGED clock
    /\ UNCHANGED <<image, image_key, mask_key, reg_data, up_how, task_id, submit_how, timeout, start,
                   res, poll_how, image_url, tmp_files, issued, last_req>>
    /\ UNCHANGED <<tokenVars, catalogVars, refreshVars, pairVars, flagVars, uiVars, argVars, jobVars, batchVars>>

\* Lines 169-170: the loop test, then time.sleep(2); when the test fails
\* waite_task returns None and so does run_annotator (line 206).
WaitSleep ==
    /\ pc = "wait"
    /\ IF clock - start < timeout
       THEN /\ clock' = clock + SleepSecs
            /\ pc' = "poll"
            /\ UNCHANGED <<image_file, outcome, error, editor_json>>
       ELSE /\ ReturnsNone
            /\ UNCHANGED clock
    /\ UNCHANGED <<image, image_key, mask_key, reg_data, up_how, task_id, submit_how, timeout, start,
                   res, poll_how, image_url, tmp_files, issued, last_req>>
    /\ UNCHANGED <<tokenVars, catalogVars, refreshVars, pairVars, flagVars, uiVars, argVars, jobVars, batchVars>>

\* Line 207 with the two lists in the other order of preference.
SelectImages_images_first(data) ==
    IF Truthy(data.images) /\ data.images[1] # <<>> THEN data.images[1]
    ELSE IF Truthy(data.hig_images) THEN data.hig_images[1]
    ELSE <<>>

\* Line 207: res.get('hig_images') or res.get('images')
SelectImages(data) ==
    IF Truthy(data.hig_images) /\ data.hig_images[1] # <<>> THEN data.hig_images[1]
    ELSE IF Truthy(data.images) THEN data.images[1]
    ELSE <<>>

\* Line 177 with every status but 0 taken for terminal.
IsTerminal_nonzero(status) == status # 0

\* Line 177
IsTerminal(status) == status = StatusSuccess \/ status = StatusFailure

\* Lines 171-178: one status poll; a terminal answer ends waite_task and
\* lines 206-209 select the artifact URL.
Poll ==
    /\ pc = "poll"
    /\ Send("poll", task_id[1])
    /\ \E resp \in PollResponses :
         /\ poll_how' = ExchangeClass(resp)
         /\ CASE ExchangeClass(resp) \in {"raise", "malformed"} ->
                   /\ Finish("raised", resp.kind)
                   /\ UNCHANGED <<res, image_url, image_file>>
              [] ExchangeClass(resp) \in {"falsy", "badcode"} ->
                   /\ pc' = "wait"
                   /\ UNCHANGED <<res, image_url, image_file, outcome, error, editor_json>>
              [] ExchangeClass(resp) = "ok" ->
                   IF ~IsTerminal(resp.data.status)
                   THEN /\ pc' = "wait"
                        /\ UNCHANGED <<res, image_url, image_file, outcome, error, editor_json>>
                   ELSE /\ res' = Some(resp.data)
                        /\ IF SelectImages(resp.data) # <<>>
                           THEN /\ image_url' = Some(SelectImages(resp.data)[1])
                                /\ pc' = "download"
                                /\ UNCHANGED <<image_file, outcome, error, editor_json>>
                           ELSE /\ ReturnsNone
                                /\ UNCHANGED image_url
    /\ UNCHANGED <<image, image_key, mask_key, reg_data, up_how, task_id, submit_how, timeout, start, clock,
                   tmp_files>>
    /\ UNCHANGED <<tokenVars, catalogVars, refreshVars, pairVars, flagVars, uiVars, argVars, jobVars, batchVars>>

\* open(filename, "wb+") and f.write(content)
WriteFile(files, name, content) ==
    {f \in files : f.name # name} \cup {[name |-> name, content |-> content]}

\* Lines 210-217: the artifact download and the temp file.
Download ==
    /\ pc = "download"
    /\ Send("download", image_url[1])
    /\ \E kind \in {"raise", "falsy", "truthy"}, content \in Contents :
         CASE kind = "raise" ->
                /\ Finish("raised", "raise")
                /\ UNCHANGED <<tmp_files, image_file>>
           [] kind = "falsy" ->
                /\ ReturnsNone
                /\ UNCHANGED tmp_files
           [] kind = "truthy" ->
                /\ tmp_files' = WriteFile(tmp_files, TmpPath(basename(image_url[1])), content)
                /\ image_file' = Some(TmpPath(basename(image_url[1])))
                /\ pc' = "decode"
                /\ UNCHANGED <<outcome, error, editor_json>>
    /\ UNCHANGED <<image, image_key, mask_key, reg_data, up_how, task_id, submit_how, timeout, start, clock,
                   res, poll_how, image_url>>
    /\ UNCHANGED <<tokenVars, catalogVars, refreshVars, pairVars, flagVars, uiVars, argVars, jobVars, batchVars>>

\* Lines 590-602 of controlnet_ui_group.py: the file is decoded, the mask
\* visualized, the file removed and the image returned; bytes that are no
\* image make Image.open raise.
HandlerDecode ==
    /\ pc = "decode"
    /\ IF \E f \in tmp_files : f.name = image_file[1] /\ f.content = "png"
       THEN /\ tmp_files' = {f \in tmp_files : f.name # image_file[1]}
            /\ Finish("image", "")
       ELSE /\ Finish("raised", "decode")
            /\ UNCHANGED tmp_files
    /\ UNCHANGED <<image, image_key, mask_key, reg_data, up_how, task_id, submit_how, timeout, start, clock,
                   res, poll_how, image_url, image_file, issued, last_req>>
    /\ UNCHANGED <<tokenVars, catalogVars, refreshVars, pairVars, flagVars, uiVars, argVars, jobVars, batchVars>>

-----------------------------------------------------------------------------
(* One ControlNetUiGroup: the Preprocessor and Model dropdowns, the Pixel *)
(* Perfect checkbox, the change handler build_sliders and the local       *)
(* branch of the handler run_annotator.                                    *)

InvertAlias == "invert (from white bg & black line)"

\* Entries of the Preprocessor dropdown and of the Model dropdown.
Modules == {"none", "canny", "reference_only", InvertAlias, "openpose_full", "clip_vision"}
Models  == {"None", "m1"}

\* scripts.processor.model_free_preprocessors (imported at line 20)
model_free_preprocessors == {"reference_only"}

\* The characters of a module's basename, for the tests that look inside it.
Spelling(module) ==
    CASE module = "none"           -> <<"n", "o", "n", "e">>
      [] module = "canny"          -> <<"c", "a", "n", "n", "y">>
      [] module = "invert"         -> <<"i", "n", "v", "e", "r", "t">>
      [] module = "reference_only" ->
            <<"r", "e", "f", "e", "r", "e", "n", "c", "e", "_", "o", "n", "l", "y">>
      [] module = "openpose_full"  ->
            <<"o", "p", "e", "n", "p", "o", "s", "e", "_", "f", "u", "l", "l">>
      [] module = "clip_vision"    ->
            <<"c", "l", "i", "p", "_", "v", "i", "s", "i", "o", "n">>

\* sub in s, for strings
Contains(s, sub) ==
    \E i \in 0..(Len(s) - Len(sub)) : SubSeq(s, i + 1, i + Len(sub)) = sub

\* Lines 637-638 with a callback for every module.
is_openpose_always(module) == TRUE

\* Lines 637-638: "openpose" in module
is_openpose(module) == Contains(Spelling(module), <<"o", "p", "e", "n", "p", "o", "s", "e">>)

\* Line 657: "clip" in module
is_clip(module) == Contains(Spelling(module), <<"c", "l", "i", "p">>)

\* The strings a preprocessor may emit, and how many in one call at most.
JsonStrings == {"{a}", "{b}"}
MaxEmits == 2

\* JsonAcceptor of lines 627-632 that keeps the first string it is given.
JsonAcceptorValue_first(emitted) == IF emitted = <<>> THEN "" ELSE emitted[1]

\* JsonAcceptor of lines 627-632: value is "" until accept() is called and
\* then the string of the latest call.
JsonAcceptorValue(emitted) == IF emitted = <<>> THEN "" ELSE emitted[Len(emitted)]

\* global_state.get_module_basename: the name behind a display alias.
get_module_basename(module) == IF module = InvertAlias THEN "invert" ELSE module

\* A group as built: the dropdowns show the module and the model of the
\* default unit given to the constructor, whatever they are.
UiInit ==
    /\ gradio_compat \in BOOLEAN
    /\ ui_module \in Modules
    /\ ui_model \in Models
    /\ ui_model_visible = TRUE
    /\ ui_pp \in BOOLEAN
    /\ local_call = None
    /\ prev_call = None
    /\ json_emitted = <<>>

\* A group built with the unit of all defaults.
UiIdle ==
    /\ gradio_compat = TRUE
    /\ ui_module = "none"
    /\ ui_model = "None"
    /\ ui_model_visible = TRUE
    /\ ui_pp = FALSE
    /\ local_call = None
    /\ prev_call = None
    /\ json_emitted = <<>>

\* Lines 530-536: what build_sliders(module, pp) returns for self.model
\* and the refresh button, applied to the Model dropdown.
build_sliders(module) ==
    IF get_module_basename(module) \in model_free_preprocessors
    THEN /\ ui_model' = "None"
         /\ ui_model_visible' = FALSE
    ELSE /\ ui_model_visible' = TRUE
         /\ UNCHANGED ui_model

\* The user picks another preprocessor; self.module.change runs
\* build_sliders when it was registered (lines 485-486, 538-543).
SelectModule ==
    /\ pc = "start"
    /\ \E m \in Modules \ {ui_module} :
         /\ ui_module' = m
         /\ IF gradio_compat THEN build_sliders(m)
            ELSE UNCHANGED <<ui_model, ui_model_visible>>
    /\ UNCHANGED <<gradio_compat, ui_pp, local_call, prev_call, json_emitted>>
    /\ UNCHANGED <<tokenVars, catalogVars, refreshVars, annotVars, pairVars, flagVars, argVars, jobVars, batchVars>>

\* The user ticks or unticks Pixel Perfect; self.pixel_perfect.change runs
\* build_sliders when it was registered (lines 544-549).
TogglePixelPerfect ==
    /\ pc = "start"
    /\ ui_pp' = ~ui_pp
    /\ IF gradio_compat THEN build_sliders(ui_module)
       ELSE UNCHANGED <<ui_model, ui_model_visible>>
    /\ UNCHANGED <<gradio_compat, ui_module, local_call, prev_call, json_emitted>>
    /\ UNCHANGED <<tokenVars, catalogVars, refreshVars, annotVars, pairVars, flagVars, argVars, jobVars, batchVars>>

\* The user picks a model in the Model dropdown (line 314), which has no
\* change handler; a hidden dropdown cannot be used.
SelectModel ==
    /\ pc = "start"
    /\ ui_model_visible
    /\ \E x \in Models \ {ui_model} : ui_model' = x
    /\ UNCHANGED <<gradio_compat, ui_module, ui_model_visible, ui_pp, local_call, prev_call,
                   json_emitted>>
    /\ UNCHANGED <<tokenVars, catalogVars, refreshVars, annotVars, pairVars, flagVars, argVars, jobVars, batchVars>>

\* Values of the sliders, of the canvas and of the image's shape.
Resolutions == {64, 512}
Thresholds  == {1, 2}
CanvasSides == {512, 768}
ImageSizes  == {[h |-> 256, w |-> 512], [h |-> 512, w |-> 512]}
\* Values of the resize-mode radio (external_code.ResizeMode).
ResizeModes == {"Just Resize", "Crop and Resize", "Resize and Fill"}

\* The arguments of a click: any.
ArgsInit ==
    /\ img_size \in ImageSizes
    /\ pres \in Resolutions
    /\ pthr_a \in Thresholds
    /\ pthr_b = 0
    /\ t2i_w \in CanvasSides
    /\ t2i_h \in CanvasSides
    /\ rm \in ResizeModes
    /\ job = None

\* The arguments of a click on the sliders' defaults.
ArgsIdle ==
    /\ img_size = [h |-> 512, w |-> 512]
    /\ pres = 512
    /\ pthr_a = 1
    /\ pthr_b = 0
    /\ t2i_w = 512
    /\ t2i_h = 512
    /\ rm = "Crop and Resize"
    /\ job = None

Min(a, b) == IF a <= b THEN a ELSE b

\* external_code.pixel_perfect_resolution(img, target_H, target_W,
\* resize_mode_from_value(rm)): the shorter side of the image times the
\* smaller (OUTER_FIT, "Crop and Resize") or the larger (any other mode) of
\* the two ratios target / image, rounded.
pixel_perfect_resolution(size, target_H, target_W, mode) ==
    LET m        == Min(size.h, size.w)
        h_le_w   == target_H * size.w <= target_W * size.h
        use_h    == IF mode = "Crop and Resize" THEN h_le_w ELSE ~h_le_w
        num      == IF use_h THEN target_H * m ELSE target_W * m
        den      == IF use_h THEN size.h ELSE size.w
    IN  (2 * num + den) \div (2 * den)

\* Lines 604-680: the local branch.  The preprocessor registered under the
\* basename of the handler's module argument is called in-process; the
\* handler has no model argument and leaves the Model dropdown alone (its
\* outputs are the preview image, the preview checkbox and the editor).
\* The callback is the accept method of the JsonAcceptor made for this
\* call, or None.  The preprocessor returns an image or something else, and
\* before it may give strings to the callback it has; or it raises.
LocalRun ==
    /\ pc = "local"
    /\ LET module   == get_module_basename(ui_module)
           callback == IF is_openpose(module)
                       THEN Some(IF prev_call = None THEN "acceptor1" ELSE "acceptor2")
                       ELSE None
       IN  /\ local_call' =
                 Some([module |-> module, model |-> ui_model, img |-> img_size,
                       res |-> IF ui_pp
                               THEN pixel_perfect_resolution(img_size, t2i_h, t2i_w, rm)
                               ELSE pres,
                       thr_a |-> pthr_a, thr_b |-> pthr_b,
                       json_pose_callback |-> callback])
           /\ \E emitted \in SeqUpTo(JsonStrings, MaxEmits), how \in {"image", "other", "raise"} :
                /\ callback = None => emitted = <<>>
                /\ json_emitted' = emitted
                /\ pc' = "done"
                /\ IF how = "raise"
                   THEN /\ outcome' = "raised"
                        /\ error' = "preprocessor"
                        /\ editor_json' = None
                   ELSE /\ outcome' = IF how = "image" \/ is_clip(module)
                                      THEN "image" ELSE "no_image"
                        /\ error' = ""
                        /\ editor_json' = Some(JsonAcceptorValue(emitted))
    /\ UNCHANGED <<gradio_compat, ui_module, ui_model, ui_model_visible, ui_pp, prev_call>>
    /\ UNCHANGED <<image, image_key, mask_key, reg_data, up_how, task_id, submit_how, timeout, start, clock,
                   res, poll_how, image_url, tmp_files, image_file, issued, last_req>>
    /\ UNCHANGED <<tokenVars, catalogVars, refreshVars, pairVars, flagVars, argVars, jobVars, batchVars>>

\* The user clicks the button again after the handler returned.
HandlerAgain ==
    /\ pc = "done"
    /\ outcome \in {"image", "no_image"}
    /\ prev_call = None
    /\ prev_call' = local_call
    /\ local_call' = None
    /\ json_emitted' = <<>>
    /\ pc' = "start"
    /\ outcome' = "running"
    /\ error' = ""
    /\ editor_json' = None
    /\ UNCHANGED <<gradio_compat, ui_module, ui_model, ui_model_visible, ui_pp>>
    /\ UNCHANGED <<image, image_key, mask_key, reg_data, up_how, task_id, submit_how, timeout, start, clock,
                   res, poll_how, image_url, tmp_files, image_file, issued, last_req>>
    /\ UNCHANGED <<tokenVars, catalogVars, refreshVars, pairVars, flagVars, argVars, jobVars, batchVars>>

\* The user moves the first threshold slider.
SetThreshold ==
    /\ pc = "start"
    /\ \E v \in Thresholds \ {pthr_a} : pthr_a' = v
    /\ UNCHANGED <<img_size, pres, pthr_b, t2i_w, t2i_h, rm>>
    /\ UNCHANGED <<tokenVars, catalogVars, refreshVars, annotVars, pairVars, flagVars, uiVars,
                   jobVars,
                   batchVars>>

-----------------------------------------------------------------------------
(* The deferred batch-directory subscriptions of one UI build:            *)
(* render_and_register_unit (lines 890-931) and on_after_component        *)
(* (lines 946-968), which run on the thread that builds the UI.           *)

MaxUnits == 3
Units == 1..MaxUnits

\* The elem_ids on_after_component keeps a component for and runs callbacks.
BatchComponents == {"img2img_batch_input_dir", "img2img_batch_output_dir"}

\* Lines 52-55: the class attributes before any component was seen.
BatchInit ==
    /\ batch_input_dir = None
    /\ batch_output_dir = None
    /\ input_dir_callbacks = <<>>
    /\ output_dir_callbacks = <<>>
    /\ input_subscribed = [u \in Units |-> 0]
    /\ output_subscribed = [u \in Units |-> 0]
    /\ unit_state = [u \in Units |-> [how |-> "none", in_set |-> FALSE, out_set |-> FALSE]]

\* f with one added at every unit of the sequence cbs, once per occurrence.
RECURSIVE RunCallbacks(_, _)
RunCallbacks(f, cbs) ==
    IF cbs = <<>> THEN f
    ELSE RunCallbacks([f EXCEPT ![Head(cbs)] = @ + 1], Tail(cbs))

\* Lines 908-931: the end of render_and_register_unit for unit u.  Lines
\* 908-914 defer or run subscribe_for_batch_dir, which skips what has no
\* 'blur' (lines 898-900).  Lines 924-930 defer or run
\* subscribe_for_output_dir on the test of img2img_batch_input_dir;
\* subscribe_for_output_dir takes .blur of img2img_batch_output_dir (line
\* 917), an AttributeError when that is None, which leaves the method.
RegisterUnit(u) ==
    /\ unit_state[u].how = "none"
    /\ IF batch_input_dir = None
       THEN /\ input_dir_callbacks' = Append(input_dir_callbacks, u)
            /\ output_dir_callbacks' = Append(output_dir_callbacks, u)
            /\ UNCHANGED <<input_subscribed, output_subscribed>>
       ELSE /\ input_subscribed' = [input_subscribed EXCEPT ![u] = @ + 1]
            /\ output_subscribed' = IF batch_output_dir = None THEN output_subscribed
                                    ELSE [output_subscribed EXCEPT ![u] = @ + 1]
            /\ UNCHANGED <<input_dir_callbacks, output_dir_callbacks>>
    /\ unit_state' = [unit_state EXCEPT ![u] =
            [how     |-> IF batch_input_dir # None /\ batch_output_dir = None
                         THEN "raised" ELSE "registered",
             in_set  |-> batch_input_dir # None,
             out_set |-> batch_output_dir # None]]
    /\ UNCHANGED <<batch_input_dir, batch_output_dir>>
    /\ UNCHANGED <<tokenVars, catalogVars, refreshVars, annotVars, pairVars, flagVars, uiVars,
                   argVars, jobVars>>

\* Lines 957-967 of on_after_component: the component is kept and every
\* callback of its list is called; the list is left as it is.
AfterComponent(elem_id) ==
    /\ IF elem_id = "img2img_batch_input_dir"
       THEN /\ batch_input_dir = None
            /\ batch_input_dir' = Some(elem_id)
            /\ input_subscribed' = RunCallbacks(input_subscribed, input_dir_callbacks)
            /\ UNCHANGED <<batch_output_dir, output_subscribed>>
       ELSE /\ batch_output_dir = None
            /\ batch_output_dir' = Some(elem_id)
            /\ output_subscribed' = RunCallbacks(output_subscribed, output_dir_callbacks)
            /\ UNCHANGED <<batch_input_dir, input_subscribed>>
    /\ UNCHANGED <<input_dir_callbacks, output_dir_callbacks, unit_state>>
    /\ UNCHANGED <<tokenVars, catalogVars, refreshVars, annotVars, pairVars, flagVars, uiVars,
                   argVars, jobVars>>

-----------------------------------------------------------------------------
(* Two remote annotation requests at once.  Gradio runs each event in a   *)
(* thread of its own; the two handlers share the process's working        *)
(* directory and so the directory 'tmp'.  The uploads and the submission  *)
(* touch nothing shared, so each request is followed from its submission  *)
(* answer on, along the path on which every exchange succeeds; a step is  *)
(* one request or one file-system call.                                    *)

Reqs == {1, 2}

\* The artifact URLs the service hands out: two with the same last path
\* segment and one with another.
PairUrls == Urls \cup { [host |-> "z", path |-> <<"b.png">>] }

\* The bytes a GET of the URL returns: each URL serves its own artifact.
ArtifactAt(url) == <<"png", url.host>>

PairInit ==
    /\ req_pc = [r \in Reqs |-> "submit"]
    /\ req_task = [r \in Reqs |-> None]
    /\ req_polled = [r \in Reqs |-> {}]
    /\ req_url = [r \in Reqs |-> None]
    /\ req_bytes = [r \in Reqs |-> None]
    /\ req_ino = [r \in Reqs |-> None]
    /\ req_result = [r \in Reqs |-> None]
    /\ req_outcome = [r \in Reqs |-> "running"]
    /\ req_tmp = {}

\* The request ends: the handler returns the image or an exception leaves it.
PairFinish(r, how) ==
    /\ req_pc' = [req_pc EXCEPT ![r] = "done"]
    /\ req_outcome' = [req_outcome EXCEPT ![r] = how]

\* Lines 201-205: the submission is answered with the id of a new task.
PairSubmit(r) ==
    /\ req_pc[r] = "submit"
    /\ \E id \in TaskIds :
         /\ \A q \in Reqs : req_task[q] # Some(id)
         /\ req_task' = [req_task EXCEPT ![r] = Some(id)]
    /\ req_pc' = [req_pc EXCEPT ![r] = "poll"]
    /\ UNCHANGED <<req_polled, req_url, req_bytes, req_ino, req_result, req_outcome, req_tmp>>
    /\ UNCHANGED <<tokenVars, catalogVars, refreshVars, annotVars, flagVars, uiVars, argVars, jobVars, batchVars>>

\* Lines 169-178 and 206-209: one status request for the task_id of this
\* call; the answer is not terminal yet, or is the result with its URL.
PairPoll(r) ==
    /\ req_pc[r] = "poll"
    /\ req_polled' = [req_polled EXCEPT ![r] = @ \cup {req_task[r][1]}]
    /\ \/ UNCHANGED <<req_pc, req_url>>
       \/ \E u \in PairUrls :
            /\ req_url' = [req_url EXCEPT ![r] = Some(u)]
            /\ req_pc' = [req_pc EXCEPT ![r] = "download"]
    /\ UNCHANGED <<req_task, req_bytes, req_ino, req_result, req_outcome, req_tmp>>
    /\ UNCHANGED <<tokenVars, catalogVars, refreshVars, annotVars, flagVars, uiVars, argVars, jobVars, batchVars>>

\* Line 210: the GET of the artifact.
PairDownload(r) ==
    /\ req_pc[r] = "download"
    /\ req_bytes' = [req_bytes EXCEPT ![r] = Some(ArtifactAt(req_url[r][1]))]
    /\ req_pc' = [req_pc EXCEPT ![r] = "open"]
    /\ UNCHANGED <<req_task, req_polled, req_url, req_ino, req_result, req_outcome, req_tmp>>
    /\ UNCHANGED <<tokenVars, catalogVars, refreshVars, annotVars, flagVars, uiVars, argVars, jobVars, batchVars>>

\* filename of lines 212-213
PairFile(r) == TmpPath(basename(req_url[r][1]))

\* Line 214: open(filename, "wb+") makes the file, or empties the one of
\* that name.
PairOpen(r) ==
    /\ req_pc[r] = "open"
    /\ IF \E f \in req_tmp : f.name = PairFile(r)
       THEN LET f == CHOOSE f \in req_tmp : f.name = PairFile(r)
            IN  /\ req_tmp' = (req_tmp \ {f}) \cup {[f EXCEPT !.content = <<>>]}
                /\ req_ino' = [req_ino EXCEPT ![r] = Some(f.ino)]
       ELSE /\ req_tmp' = req_tmp \cup {[name |-> PairFile(r), ino |-> r, content |-> <<>>]}
            /\ req_ino' = [req_ino EXCEPT ![r] = Some(r)]
    /\ req_pc' = [req_pc EXCEPT ![r] = "write"]
    /\ UNCHANGED <<req_task, req_polled, req_url, req_bytes, req_result, req_outcome>>
    /\ UNCHANGED <<tokenVars, catalogVars, refreshVars, annotVars, flagVars, uiVars, argVars, jobVars, batchVars>>

\* Lines 215-217: the bytes go to the open file, which is closed and its
\* name returned; bytes written to a file that was removed meanwhile are
\* under no name.
PairWrite(r) ==
    /\ req_pc[r] = "write"
    /\ req_tmp' = {IF f.ino = req_ino[r][1] THEN [f EXCEPT !.content = req_bytes[r][1]] ELSE f :
                     f \in req_tmp}
    /\ req_pc' = [req_pc EXCEPT ![r] = "read"]
    /\ UNCHANGED <<req_task, req_polled, req_url, req_bytes, req_ino, req_result, req_outcome>>
    /\ UNCHANGED <<tokenVars, catalogVars, refreshVars, annotVars, flagVars, uiVars, argVars, jobVars, batchVars>>

\* Lines 590-592 of controlnet_ui_group.py: the file of that name is
\* decoded; no such file, or no bytes in it, and Image.open raises.
PairRead(r) ==
    /\ req_pc[r] = "read"
    /\ IF \E f \in req_tmp : f.name = PairFile(r) /\ f.content # <<>>
       THEN LET f == CHOOSE f \in req_tmp : f.name = PairFile(r)
            IN  /\ req_result' = [req_result EXCEPT ![r] = Some(f.content)]
                /\ req_pc' = [req_pc EXCEPT ![r] = "remove"]
                /\ UNCHANGED req_outcome
       ELSE /\ PairFinish(r, "raised")
            /\ UNCHANGED req_result
    /\ UNCHANGED <<req_task, req_polled, req_url, req_bytes, req_ino, req_tmp>>
    /\ UNCHANGED <<tokenVars, catalogVars, refreshVars, annotVars, flagVars, uiVars, argVars, jobVars, batchVars>>

\* Lines 594-602: os.remove(image_file), which raises when no file has
\* that name, and the return of the image.
PairRemove(r) ==
    /\ req_pc[r] = "remove"
    /\ IF \E f \in req_tmp : f.name = PairFile(r)
       THEN /\ req_tmp' = {f \in req_tmp : f.name # PairFile(r)}
            /\ PairFinish(r, "image")
       ELSE /\ PairFinish(r, "raised")
            /\ UNCHANGED req_tmp
    /\ UNCHANGED <<req_task, req_polled, req_url, req_bytes, req_ino, req_result>>
    /\ UNCHANGED <<tokenVars, catalogVars, refreshVars, annotVars, flagVars, uiVars, argVars, jobVars, batchVars>>

-----------------------------------------------------------------------------
(* Specifications *)

\* The remote annotation request.
Init ==
    /\ TokenIdle
    /\ CatalogInit
    /\ RefreshInit
    /\ AnnotInit
    /\ PairInit
    /\ BatchInit
    /\ FlagsRemote
    /\ UiIdle
    /\ ArgsIdle

Next ==
    \/ HandlerStart
    \/ UploadRegister("image")
    \/ UploadPut("image")
    \/ UploadRegister("mask")
    \/ UploadPut("mask")
    \/ Submit
    \/ WaitSleep
    \/ Poll
    \/ Download
    \/ HandlerDecode

Spec == Init /\ [][Next]_vars

\* get_tushuashua_token over credentials and times.
InitToken ==
    /\ TokenInit
    /\ CatalogInit
    /\ RefreshInit
    /\ AnnotIdle
    /\ PairInit
    /\ BatchInit
    /\ FlagsRemote
    /\ UiIdle
    /\ ArgsIdle

NextToken ==
    \/ GetToken
    \/ Tick

SpecToken == InitToken /\ [][NextToken]_vars

\* get_tushuashua_token over every stored value.
InitCredential ==
    /\ CredentialInit
    /\ CatalogInit
    /\ RefreshInit
    /\ AnnotIdle
    /\ PairInit
    /\ BatchInit
    /\ FlagsRemote
    /\ UiIdle
    /\ ArgsIdle

SpecCredential == InitCredential /\ [][NextToken]_vars

\* The catalog fetches and tss.cache.
InitCatalog ==
    /\ TokenIdle
    /\ CatalogInit
    /\ RefreshInit
    /\ AnnotIdle
    /\ PairInit
    /\ BatchInit
    /\ FlagsRemote
    /\ UiIdle
    /\ ArgsIdle

NextCatalog ==
    \/ FetchModules
    \/ FetchModels

SpecCatalog == InitCatalog /\ [][NextCatalog]_vars

\* Every request the client sends: a behaviour is one annotation request
\* or, when the handler had no image to work on, the catalog fetches that
\* follow.  The fetches and the request share no state.
InitRequests ==
    /\ TokenIdle
    /\ CatalogInit
    /\ RefreshInit
    /\ AnnotInit
    /\ PairInit
    /\ BatchInit
    /\ FlagsRemote
    /\ UiIdle
    /\ ArgsIdle

IdleFetchModules == image = None /\ pc = "done" /\ FetchModules

IdleFetchModels == image = None /\ pc = "done" /\ FetchModels

NextRequests ==
    \/ HandlerStart
    \/ UploadRegister("image")
    \/ UploadPut("image")
    \/ UploadRegister("mask")
    \/ UploadPut("mask")
    \/ Submit
    \/ WaitSleep
    \/ Poll
    \/ Download
    \/ HandlerDecode
    \/ IdleFetchModules
    \/ IdleFetchModels

SpecRequests == InitRequests /\ [][NextRequests]_vars

\* One group of a process that executes locally: selections, then a run.
InitUi ==
    /\ TokenIdle /\ CatalogInit /\ RefreshInit /\ PairInit /\ BatchInit /\ FlagsLocal /\ UiInit
    /\ ArgsIdle
    /\ AnnotInit
    /\ image # None

NextUi ==
    \/ SelectModule
    \/ SelectModel
    \/ TogglePixelPerfect
    \/ SetThreshold
    \/ HandlerStart
    \/ LocalRun
    \/ HandlerAgain

SpecUi == InitUi /\ [][NextUi]_vars

\* A process with any settings: one annotation request or, when the
\* handler had no image to work on, the operations that refresh the
\* lists of the UI.  The request and the refreshes share no state but the
\* settings, which nothing writes.
InitEnable ==
    /\ TokenIdle /\ CatalogInit /\ RefreshInit /\ AnnotInit /\ PairInit /\ BatchInit /\ FlagsInit /\ UiIdle
    /\ ArgsIdle

IdleRefreshAllModels == image = None /\ pc = "done" /\ RefreshClear("refresh_all_models")

IdleRefreshAllLocal == image = None /\ pc = "done" /\ RefreshAllLocal

IdleInitTssUi == image = None /\ pc = "done" /\ InitTssUi

NextEnable ==
    \/ HandlerStart
    \/ LocalRun
    \/ UploadRegister("image")
    \/ UploadPut("image")
    \/ UploadRegister("mask")
    \/ UploadPut("mask")
    \/ Submit
    \/ WaitSleep
    \/ Poll
    \/ Download
    \/ HandlerDecode
    \/ IdleRefreshAllModels
    \/ IdleRefreshAllLocal
    \/ IdleInitTssUi
    \/ RefreshFetch
    \/ PublishModels
    \/ AppendKey

SpecEnable == InitEnable /\ [][NextEnable]_vars

\* The dispatch of one click, in a process that executes remotely and in
\* one that executes locally, up to the point where the arguments are
\* handed over: the call of the preprocessor or the submission of the job.
\* The handler on both strategies, from the click to its end: the remote
\* one with an openpose module chosen, the local one with an openpose
\* module, a clip module or another.
InitEditor ==
    /\ TokenIdle /\ CatalogInit /\ RefreshInit /\ PairInit /\ BatchInit
    /\ FlagsRemote \/ FlagsLocal
    /\ UiIdle!1 /\ UiIdle!3 /\ UiIdle!4 /\ UiIdle!5 /\ UiIdle!6 /\ UiIdle!7 /\ UiIdle!8
    /\ ui_module \in IF enable THEN {"openpose_full"}
                    ELSE {"openpose_full", "clip_vision", "canny"}
    /\ ArgsIdle
    /\ AnnotInit

NextEditor ==
    \/ HandlerStart
    \/ LocalRun
    \/ UploadRegister("image")
    \/ UploadPut("image")
    \/ UploadRegister("mask")
    \/ UploadPut("mask")
    \/ Submit
    \/ WaitSleep
    \/ Poll
    \/ Download
    \/ HandlerDecode

SpecEditor == InitEditor /\ [][NextEditor]_vars

\* A call waite_task(task_id, timeout) on its own, for timeouts from 0 up.
MaxTimeout == 5

InitWait ==
    /\ TokenIdle /\ CatalogInit /\ RefreshInit /\ PairInit /\ BatchInit /\ FlagsRemote /\ UiIdle /\ ArgsIdle
    /\ pc = "wait"
    /\ image = Some("img")
    /\ image_key = Some("k1")
    /\ mask_key = Some("k1")
    /\ reg_data = None
    /\ up_how = [w \in {"image", "mask"} |-> [reg |-> "ok", put |-> "ok"]]
    /\ task_id \in {Some(t) : t \in TaskIds}
    /\ submit_how = "ok"
    /\ timeout \in 0..MaxTimeout
    /\ start = 0
    /\ clock = 0
    /\ res = None
    /\ poll_how = "none"
    /\ image_url = None
    /\ tmp_files = {}
    /\ image_file = None
    /\ outcome = "running"
    /\ error = ""
    /\ editor_json = None
    /\ issued = [k \in RequestKinds |-> IF k \in {"poll", "download"} THEN 0 ELSE 1]
    /\ last_req = [kind |-> "submit", target |-> "/v1/img2img-tasks/cnet"]

NextWait ==
    \/ WaitSleep
    \/ Poll

\* The thread that runs waite_task goes on: time.sleep returns, and the GET
\* of line 171 ends within its own timeout of 5 seconds.
SpecWait == InitWait /\ [][NextWait]_vars /\ WF_vars(WaitSleep) /\ WF_vars(Poll)

InitDispatch ==
    /\ TokenIdle /\ CatalogInit /\ RefreshInit /\ PairInit /\ BatchInit
    /\ FlagsRemote \/ FlagsLocal
    /\ UiInit /\ gradio_compat /\ ui_model = "None"
    /\ ArgsInit
    /\ AnnotInit
    /\ image # None

NextDispatch ==
    \/ HandlerStart
    \/ LocalRun
    \/ UploadRegister("image")
    \/ UploadPut("image")
    \/ UploadRegister("mask")
    \/ UploadPut("mask")
    \/ Submit

SpecDispatch == InitDispatch /\ [][NextDispatch]_vars

\* Two annotation requests at once, each from its submission answer on.
NextPair ==
    \/ \E r \in Reqs : PairSubmit(r)
    \/ \E r \in Reqs : PairPoll(r)
    \/ \E r \in Reqs : PairDownload(r)
    \/ \E r \in Reqs : PairOpen(r)
    \/ \E r \in Reqs : PairWrite(r)
    \/ \E r \in Reqs : PairRead(r)
    \/ \E r \in Reqs : PairRemove(r)

SpecPair == InitCatalog /\ [][NextPair]_vars

\* The refresh operations that publish into global_state.
\* init_tss_ui called again and again, in any process.
InitStartup ==
    /\ TokenIdle /\ CatalogInit /\ RefreshInit /\ AnnotIdle /\ PairInit /\ BatchInit /\ FlagsInit /\ UiIdle
    /\ ArgsIdle

NextStartup ==
    \/ InitTssUi
    \/ RefreshFetch
    \/ PublishModels
    \/ AppendKey

SpecStartup == InitStartup /\ [][NextStartup]_vars

NextBatch ==
    \/ \E u \in Units : RegisterUnit(u)
    \/ \E e \in BatchComponents : AfterComponent(e)

SpecBatch == InitCatalog /\ [][NextBatch]_vars

NextRefresh ==
    \/ \E op \in RefreshOps : RefreshClear(op)
    \/ RefreshFetch
    \/ PublishModels
    \/ AppendKey

SpecRefresh == InitCatalog /\ [][NextRefresh]_vars

-----------------------------------------------------------------------------
(* Properties *)

\* The ways a catalog GET fails that C1 and C2 name: transport failure,
\* non-2xx HTTP status, envelope code other than 200, malformed body.
RemoteFailures == {"raise", "falsy", "badcode", "malformed"}

\* C1: when a value cached by an earlier successful fetch of the category
\* exists, a fetch whose GET fails by a transport failure, a non-200 code or
\* a malformed body returns normally (with the cached value); it raises
\* nothing.
C1_FailureFallsBack ==
    (fetch_how \in RemoteFailures /\ last_good[fetch_cat] # None)
        => ~fetch_out.raised

\* C2: after at least one successful fetch of a category, a fetch of that
\* category whose remote call fails returns exactly the value the most
\* recent successful fetch of the category returned.
C2_FailureReturnsLastGood ==
    (fetch_how \in RemoteFailures /\ last_good[fetch_cat] # None)
        => fetch_out = Ret(last_good[fetch_cat][1])

\* C3: a submitted job whose polls never give a terminal status ends the
\* request with "no result" (the handler's empty update), never with an
\* exception, whatever the polls gave instead.
C3_NoTerminalIsNoResult ==
    (pc = "done" /\ submit_how = "ok" /\ res = None) => outcome = "empty"

\* C4: waite_task returns a result only from a poll answered with code 200
\* and status 10 or -1; after any other poll answer (other status, other
\* code, falsy response) the loop goes on, and while the elapsed time is
\* below the timeout it sleeps 2 seconds and polls again.
C4_Returned ==
    res # None => /\ poll_how = "ok"
                  /\ res[1].status \in {StatusSuccess, StatusFailure}

C4_Step ==
    /\ (pc = "poll" /\ pc' # "poll" /\ res' = None
            /\ poll_how' \in {"falsy", "badcode", "ok"})
         => pc' = "wait"
    /\ (pc = "wait" /\ clock - start < WaitTimeout)
         => (pc' = "poll" /\ clock' = clock + SleepSecs /\ res' = None)
    /\ (pc = "wait" /\ pc' = "poll") => clock - start < WaitTimeout

C4_TerminalOnly == []C4_Returned /\ [][C4_Step]_vars

\* A result returned with the failure status after two polls that did not end the wait.
C4_Witness ==
    /\ res # None
    /\ res[1].status = StatusFailure
    /\ issued["poll"] = 3

\* C5: when the poller gets the failure status -1, run_annotator returns
\* None: no download is requested and no temp file is created, whatever the
\* failure payload holds.
C5_FailureIsNoResult ==
    (res # None /\ res[1].status = StatusFailure)
        => /\ issued["download"] = 0
           /\ tmp_files = {}
           /\ image_file = None
           /\ pc = "done" => outcome = "empty"

\* C6: on a terminal result the selected URL is the first element of
\* hig_images when that list is present and not empty, else the first
\* element of images when that one is not empty; when both are absent or
\* empty no URL is selected and nothing is downloaded.
C6_Selection ==
    /\ res # None =>
         LET hig == res[1].hig_images
             std == res[1].images
         IN  IF hig # None /\ hig[1] # <<>> THEN image_url = Some(hig[1][1])
             ELSE IF std # None /\ std[1] # <<>> THEN image_url = Some(std[1][1])
             ELSE image_url = None /\ issued["download"] = 0
    /\ issued["download"] > 0 => /\ res # None
                                 /\ image_url # None
    /\ last_req.kind = "download" => last_req.target = image_url[1]

\* Both lists populated, with different first elements, and the download sent.
C6_Witness ==
    /\ res # None
    /\ res[1].hig_images # None
    /\ res[1].images # None
    /\ Len(res[1].hig_images[1]) = 2
    /\ Len(res[1].images[1]) = 2
    /\ res[1].hig_images[1][1] # res[1].images[1][1]
    /\ res[1].hig_images[1][1] # res[1].hig_images[1][2]
    /\ issued["download"] = 1

\* C7: when the submission POST is rejected (falsy response or a code
\* other than 200) the request ends with an error raised to the caller,
\* not with an empty result.
C7_RejectedSubmissionRaises ==
    (pc = "done" /\ submit_how \in {"falsy", "badcode"}) => outcome = "raised"

\* C8: an upload is two-phase and all-or-nothing: the PUT is sent only
\* after a registration answered with code 200, to the URL of that answer;
\* a key is returned only when both phases succeeded; when a phase of
\* either upload failed no job is submitted and the request ends raising.
UploadFailed(w) ==
    \/ up_how[w].reg \in {"raise", "falsy", "malformed", "badcode"}
    \/ up_how[w].put \in {"raise", "falsy"}

C8_Uploads ==
    /\ image_key # None => up_how["image"].reg = "ok" /\ up_how["image"].put = "truthy"
    /\ mask_key # None => up_how["mask"].reg = "ok" /\ up_how["mask"].put = "truthy"
    /\ \A w \in {"image", "mask"} : up_how[w].put # "none" => up_how[w].reg = "ok"
    /\ \A w \in {"image", "mask"} :
         (up_how[w].reg = "ok" /\ up_how[w].put = "truthy")
            => (IF w = "image" THEN image_key ELSE mask_key) # None
    /\ ((\E w \in {"image", "mask"} : UploadFailed(w))
            /\ pc \notin {"reg_image", "put_image", "reg_mask", "put_mask"})
         => /\ pc = "done"
            /\ outcome = "raised"
            /\ issued["submit"] = 0

C8_PutStep ==
    \A w \in {"image", "mask"} :
        issued'["put_" \o w] # issued["put_" \o w]
            => /\ up_how[w].reg = "ok"
               /\ reg_data # None
               /\ last_req' = [kind |-> "put_" \o w, target |-> reg_data[1].url]

C8_TwoPhaseUpload == []C8_Uploads /\ [][C8_PutStep]_vars

\* The image's PUT failed, the mask's upload succeeded, and the request ended raising.
C8_Witness ==
    /\ pc = "done"
    /\ up_how["image"].put = "falsy"
    /\ mask_key # None
    /\ error = "upload image file failed"

\* C9: while a refresh is in flight, the published cn_models and
\* ui_preprocessor_keys each hold either the complete previous value or the
\* complete new one, never an empty or partly filled one.
C9_SnapshotOrNothing ==
    rpc # "idle" =>
        /\ \/ cn_models = prev_models
           \/ rpc = "fetched" /\ rop # "set_ui_preprocessors" /\ cn_models = rpending
        /\ \/ ui_keys = prev_keys
           \/ rpc = "fetched" /\ rop = "set_ui_preprocessors" /\ rpending = <<>>

\* C10: with no credential, or with expire - now < 60, get_tushuashua_token
\* returns the empty string; it returns a token only when expire - now >= 60.
C10_ExpiryMargin ==
    token_ret # None =>
        LET c == token_ret[1]
        IN  /\ tu_token = None => c.value = <<>>
            /\ (tu_token # None /\ tu_token[1].expire - c.at < 60) => c.value = <<>>
            /\ c.value # <<>> => /\ tu_token # None
                                 /\ tu_token[1].expire - c.at >= 60

\* A call one second inside the margin.
C10_Witness ==
    /\ token_ret # None
    /\ tu_token # None
    /\ tu_token[1].expire - token_ret[1].at = 59
    /\ token_ret[1].value = <<>>

\* C11: every mapping request_models returns, from a fresh answer or from
\* the cached one, has the key "None" exactly once, mapped to None, and has
\* no key equal to the raw empty-selection display value.
C11_NoneSentinel ==
    (fetch_cat = "models" /\ ~fetch_out.raised) =>
        LET d == fetch_out.value
        IN  /\ \E i \in 1..Len(d) : d[i] = <<"None", None>>
            /\ \A i \in 1..Len(d) : d[i][1] = "None" => d[i][2] = None
            /\ \A i \in 1..Len(d) : d[i][1] # EmptySelection
            /\ \A i, j \in 1..Len(d) : d[i][1] = d[j][1] => i = j

\* A mapping returned from the cached feed after a rejected GET, the feed
\* holding a "None" entry with a value and the empty-selection entry.
C11_Witness ==
    /\ fetch_cat = "models"
    /\ fetch_how = "badcode"
    /\ ~fetch_out.raised
    /\ cache["models"] # None
    /\ cache["models"][1].shape = "ok"
    /\ \E i, j \in 1..Len(cache["models"][1].items) :
          /\ cache["models"][1].items[i].display_value = "None"
          /\ cache["models"][1].items[j].display_value = EmptySelection

\* C12: whenever the remote annotate handler has finished, by returning or
\* by an exception of the decoding, the file run_annotator wrote under
\* 'tmp' does not exist any more.
C12_TempFileReleased ==
    (pc = "done" /\ image_file # None)
        => ~\E f \in tmp_files : f.name = image_file[1]

\* C17: a failing catalog fetch leaves every entry of tss.cache as it was;
\* a successful one replaces the entry of its category by the payload of
\* the answer and leaves the other entries as they were.
C17_Step ==
    /\ fetch_out'.raised => cache' = cache
    /\ ~fetch_out'.raised =>
         /\ \A k \in {"mudules", "models", "init"} :
               k # fetch_cat' => cache'[k] = cache[k]
         /\ fetch_how' = "ok" => /\ cache'[fetch_cat'] # None
                                 /\ cache'[fetch_cat'][1].shape = "ok"
         /\ fetch_how' # "ok" => cache' = cache

C17_CacheFrame == [][C17_Step]_vars

\* C18: a fetch whose GET fails or carries no data, with no cached value
\* of its category, raises to the caller and returns no list or mapping,
\* whatever the cache holds for the other category.
C18_NoCacheRaises ==
    (fetch_cat # "none" /\ fetch_how \in RemoteFailures \cup {"nodata"}
        /\ cache[fetch_cat] = None)
      => /\ fetch_out.raised
         /\ fetch_out.value = <<>>
         /\ fetch_how \in {"falsy", "badcode", "nodata"}
               => fetch_out.error = "request tss failed"

\* A models fetch rejected with no cached models while modules are cached.
C18_Witness ==
    /\ fetch_cat = "models"
    /\ fetch_how = "badcode"
    /\ cache["models"] = None
    /\ cache["mudules"] # None
    /\ fetch_out = Raise("request tss failed")

\* C19: when the GET of the artifact fails, by a transport error or by a
\* non-2xx response, the request ends with an exception and no temp file
\* is created.
C19_DownloadFailureRaises ==
    (pc = "done" /\ issued["download"] = 1 /\ image_file = None)
        => /\ outcome = "raised"
           /\ tmp_files = {}

\* C16: no status request follows the submission at once: a status request
\* is sent only after a sleep of 2 seconds that began after the submission
\* or the previous status request returned, so the n-th one is sent 2n
\* seconds of sleep after the submission returned.
C16_Slept ==
    pc = "poll" => clock - start = 2 * (issued["poll"] + 1)

C16_Step ==
    /\ issued'["poll"] # issued["poll"] => /\ pc = "poll"
                                          /\ pc' # "poll"
                                          /\ clock' = clock
    /\ (pc # "poll" /\ pc' = "poll") => /\ pc = "wait"
                                        /\ clock' = clock + 2
                                        /\ issued' = issued

C16_DelayBeforeEveryPoll == []C16_Slept /\ [][C16_Step]_vars

\* The second status request about to be sent, four seconds after the submission.
C16_Witness ==
    /\ pc = "poll"
    /\ issued["poll"] = 1
    /\ clock - start = 4

\* C15: nothing is sent a second time but the status request: in one
\* annotation request each registration, each PUT, the submission and the
\* download are sent at most once, whatever came of them, and a catalog
\* fetch sends one GET.
C15_Counts ==
    /\ \A k \in {"reg_image", "put_image", "reg_mask", "put_mask", "submit", "download"} :
          issued[k] <= 1
    /\ fetch_cat # "none" => fetch_gets = 1

C15_Step ==
    /\ \A k \in {"reg_image", "put_image", "reg_mask", "put_mask", "submit", "download"} :
          issued'[k] # issued[k] => issued[k] = 0 /\ issued'[k] = 1
    /\ fetch_gets' \in {fetch_gets, 1}

C15_NoRetry == []C15_Counts /\ [][C15_Step]_vars

\* A request over after the image's registration was refused and the mask's
\* PUT failed: each was sent once and never again.
C15_Witness ==
    /\ pc = "done"
    /\ up_how["image"].reg = "badcode"
    /\ up_how["mask"].put = "falsy"
    /\ issued["reg_image"] = 1
    /\ issued["put_image"] = 0
    /\ issued["put_mask"] = 1

\* C14: of two requests running at once each asks the status of its own
\* task only, and each ends as it would alone: it returns the image
\* decoded from the artifact of its own URL, also when the two URLs have
\* the same last path segment.
C14_Independent ==
    \A r \in Reqs :
        /\ req_polled[r] \subseteq {t \in TaskIds : req_task[r] = Some(t)}
        /\ req_result[r] # None => req_result[r] = Some(ArtifactAt(req_url[r][1]))
        /\ req_pc[r] = "done" => req_outcome[r] = "image"

\* C20: whenever the preprocessor of a model-free module is called
\* in-process, the unit's model is "None" at that point, whatever modules
\* and models were selected before the run.
C20_ModelFreeRunsWithoutModel ==
    (local_call # None /\ local_call[1].module = "reference_only")
        => local_call[1].model = "None"

\* C13: in a worker process nothing is sent to the remote service by the
\* annotate handler, refresh_all_models or init_tss_ui, whatever
\* xz_ext_enable is; something is sent, and the handler takes the remote
\* branch, only with xz_ext_enable set and the worker flag not set.
C13_WorkerIsLocal ==
    LET sent   == (\E k \in RequestKinds : issued[k] > 0) \/ fetch_gets > 0
        remote == pc \notin {"start", "local", "done"} \/ rpc # "idle" \/ sent
                  \/ cache["init"] = 1
    IN  /\ worker => ~remote
        /\ remote => xz_ext_enable = Some(TRUE) /\ ~worker
        /\ local_call # None => ~(xz_ext_enable = Some(TRUE) /\ ~worker)
        /\ (xz_ext_enable = Some(TRUE) /\ ~worker /\ image # None /\ pc # "start")
             => (remote /\ local_call = None)

\* A worker with xz_ext_enable set has run the preprocessor in-process.
C13_Witness ==
    /\ worker
    /\ xz_ext_enable = Some(TRUE)
    /\ pc = "done"
    /\ local_call # None
    /\ \A k \in RequestKinds : issued[k] = 0

\* C21: with pixel-perfect set, the resolution handed to the local
\* preprocessor and the one in the remote job descriptor are the one
\* computed from the image's shape, the target canvas and the resize mode,
\* not the value of the resolution slider.
C21_PixelPerfectComputed ==
    ui_pp =>
        LET computed == pixel_perfect_resolution(img_size, t2i_h, t2i_w, rm)
        IN  /\ local_call # None => local_call[1].res = computed
            /\ job # None => job[1].annotator_resolution = computed

\* Lines 646-654: what the preprocessor is called with.
PreprocessorArgs(call) ==
    <<call.img, call.res, call.thr_a, call.thr_b, call.json_pose_callback>>

\* The modules of the model whose preprocessor reports a pose.
PoseModules == {"openpose_full"}

\* C22: the local call carries a JSON callback exactly when the module is an
\* openpose one; for every other module the callback argument is None, so
\* two local calls on equal image, resolution and thresholds are called
\* with identical arguments.
C22_CallbackOnlyForOpenpose ==
    /\ local_call # None =>
          (local_call[1].json_pose_callback # None <=> local_call[1].module \in PoseModules)
    /\ (/\ local_call # None
        /\ prev_call # None
        /\ local_call[1].module \notin PoseModules
        /\ prev_call[1].module \notin PoseModules
        /\ local_call[1].img = prev_call[1].img
        /\ local_call[1].res = prev_call[1].res
        /\ local_call[1].thr_a = prev_call[1].thr_a
        /\ local_call[1].thr_b = prev_call[1].thr_b)
       => PreprocessorArgs(local_call[1]) = PreprocessorArgs(prev_call[1])

\* Two calls of different non-openpose modules on equal inputs, and a call
\* of an openpose module that got its callback.
C22_Witness ==
    /\ local_call # None
    /\ prev_call # None
    /\ local_call[1].module = "canny"
    /\ prev_call[1].module = "clip_vision"
    /\ local_call[1].res = prev_call[1].res
    /\ local_call[1].thr_a = prev_call[1].thr_a
    /\ local_call[1].json_pose_callback = None

\* C23: whenever the handler returns, openpose_editor.update was given the
\* captured JSON: on the local path the last string the preprocessor gave
\* to the callback and the empty string when it gave none, whether or not
\* the result is an image; on the remote path and for an absent image the
\* empty string.
C23_EditorGetsCapturedJson ==
    (pc = "done" /\ outcome # "raised") =>
        /\ editor_json # None
        /\ editor_json[1] =
              IF local_call # None /\ json_emitted # <<>>
              THEN json_emitted[Len(json_emitted)]
              ELSE ""

\* An openpose call that was given two different strings and whose result
\* is not an image.
C23_Witness ==
    /\ pc = "done"
    /\ outcome = "no_image"
    /\ local_call # None
    /\ json_emitted = <<"{a}", "{b}">>
    /\ editor_json = Some("{b}")

\* C24: every non-empty value get_tushuashua_token returns is the prefix
\* 'Bearer ' followed by a non-empty token, the prefix added exactly when the
\* stored token does not start with 'Bearer ' and never twice.
C24_BearerForm ==
    (token_ret # None /\ token_ret[1].value # <<>>) =>
        LET v      == token_ret[1].value
            prefix == Bearer \o <<" ">>
            stored == tu_token[1].token
        IN  /\ startswith(v, prefix)
            /\ Len(v) > Len(prefix)
            /\ v = IF startswith(stored, prefix) THEN stored ELSE prefix \o stored

\* C25: get_tushuashua_token raises no error whatever opts."tu-token" holds
\* (absent, valid, expired, null, a mapping without 'token' or without
\* 'expire') and returns a string.
C25_NeverRaises ==
    token_ret # None => token_ret[1].error = ""

\* C26: in every mapping request_models returns, the entry "None" is the
\* last one in iteration order, whatever the feed holds.
C26_NoneIsLast ==
    (fetch_cat = "models" /\ ~fetch_out.raised) =>
        LET d == fetch_out.value
        IN  /\ d # <<>>
            /\ d[Len(d)][1] = "None"

\* C27: request_models is idempotent: when two consecutive calls are both
\* answered with code 200 and the same feed, the second returns the mapping
\* the first returned and leaves tss.cache as the first left it.
C27_Idempotent ==
    [][(fetch_repeat' /\ fetch_cat' = "models")
          => (fetch_out' = fetch_out /\ cache' = cache)]_vars

\* A second answered call on a feed of two items, one of them the
\* empty-selection entry, after an earlier different feed.
C27_Witness ==
    /\ fetch_repeat
    /\ fetch_cat = "models"
    /\ ~fetch_out.raised
    /\ Len(fetch_resp.data[1].items) = 2
    /\ fetch_resp.data[1].items[1].display_value = EmptySelection
    /\ Len(fetch_out.value) = 2

\* C28: waite_task terminates for every timeout >= 0 whatever the polls
\* answer, after at most ceil(timeout / 2) polls; a sleep-then-poll cycle
\* starts only while the time since loop entry is below the timeout (none
\* with timeout 0), and once the sleep is over the poll is sent without
\* another look at the clock.
C28_WaitTerminates ==
    /\ <>(pc \notin {"wait", "poll"})
    /\ [](2 * issued["poll"] < timeout + 2)
    /\ [][(pc = "wait" /\ pc' = "poll") => clock - start < timeout]_vars
    /\ [][pc = "poll" => issued'["poll"] = issued["poll"] + 1]_vars

\* Timeout 3: the second poll is sent 4 seconds after loop entry, and with
\* its answer not terminal the loop ends.
C28_Witness ==
    /\ timeout = 3
    /\ issued["poll"] = 2
    /\ clock - start = 4
    /\ pc = "done"
    /\ outcome = "empty"
    /\ res = None

\* C30: after a remote refresh that ended because the fetch raised,
\* global_state.cn_models and global_state.ui_preprocessor_keys hold what
\* they held before the operation; cn_models still has the key "None".
C30_FailedRefreshKeepsLists ==
    (rpc = "idle" /\ rraised) =>
        /\ cn_models = prev_models
        /\ ui_keys = prev_keys
        /\ (HasKey(prev_models, "None") => HasKey(cn_models, "None"))

\* The place of a request kind in the protocol of one annotation.
C29_Rank(kind) ==
    CASE kind = "none"      -> 0
      [] kind = "reg_image" -> 1
      [] kind = "put_image" -> 2
      [] kind = "reg_mask"  -> 3
      [] kind = "put_mask"  -> 4
      [] kind = "submit"    -> 5
      [] kind = "poll"      -> 6
      [] kind = "download"  -> 7

\* The requests go out in protocol order, only polls more than once; the
\* submission needs both keys; polls need a submission answered with code
\* 200 and carry its task_id; the download needs a terminal poll answer
\* with an artifact; the temp file needs the download.
C29_Order ==
    /\ \A k \in RequestKinds \ {"poll"} : issued[k] <= 1
    /\ \A k, l \in RequestKinds :
          (issued[l] > 0 /\ C29_Rank(k) < C29_Rank(l) /\ C29_Rank(k) \notin {2, 4})
              => issued[k] > 0
    /\ issued["put_image"] > 0 => up_how["image"].reg = "ok"
    /\ issued["put_mask"] > 0 => up_how["mask"].reg = "ok"
    /\ issued["submit"] > 0 => (Truthy(image_key) /\ Truthy(mask_key))
    /\ issued["poll"] > 0 => (submit_how = "ok" /\ task_id # None)
    /\ last_req.kind = "poll" => last_req.target = task_id[1]
    /\ issued["download"] > 0 =>
          /\ res # None
          /\ res[1].status \in {StatusSuccess, StatusFailure}
          /\ image_url # None
          /\ last_req.target = image_url[1]
    /\ tmp_files # {} => issued["download"] > 0

C29_OrderStep ==
    C29_Rank(last_req'.kind) >= C29_Rank(last_req.kind)

\* C29 as stated: the requests of one remote annotation go out in protocol
\* order with the preconditions of each, and the mask upload is attempted
\* whenever the image upload failed.
C29_MaskAfterAnyFailure ==
    /\ C29_Order
    /\ (/\ pc = "done"
        /\ \/ up_how["image"].reg \in {"raise", "malformed", "falsy", "badcode"}
           \/ up_how["image"].put \in {"raise", "falsy"})
       => issued["reg_mask"] > 0

\* C29: the requests of one remote annotation go out in protocol order
\* with the preconditions of each, and the mask upload is attempted whenever
\* the image upload returned, with a key or without one.
C29_ProtocolOrder ==
    /\ []C29_Order
    /\ [][C29_OrderStep]_vars
    /\ []((\/ up_how["image"].reg \in {"falsy", "badcode"}
           \/ up_how["image"].put \in {"falsy", "truthy"})
          => (pc = "reg_mask" \/ issued["reg_mask"] > 0))

\* The registration of the image was rejected, the mask was uploaded all
\* the same, and the handler ended without a submission.
C29_Witness ==
    /\ pc = "done"
    /\ up_how["image"].reg = "badcode"
    /\ up_how["mask"].put = "truthy"
    /\ issued["reg_mask"] = 1
    /\ issued["put_mask"] = 1
    /\ issued["submit"] = 0
    /\ error = "upload image file failed"

\* What init_tss_ui and the operations it calls can change, apart from
\* the count of the calls.
C31_Touched ==
    <<cn_models, ui_keys, rpc, rop, rpending, rraised, rinit, prev_models, prev_keys, catalogVars>>

C31_Marker ==
    /\ cache["init"] = 1 =>
          /\ enable
          /\ rpc = "idle"
          /\ ~rraised
          /\ Truthy(cache["mudules"])
          /\ Truthy(cache["models"])
          /\ HasKey(cn_models, "None")
    /\ (rpc = "idle" /\ rraised) => cache["init"] = 0
    /\ ~enable =>
          /\ cn_models = <<>>
          /\ ui_keys = <<>>
          /\ rpc = "idle"
          /\ fetch_gets = 0
          /\ cache = [mudules |-> None, models |-> None, init |-> 0]

C31_Step ==
    /\ cache["init"] = 1 => UNCHANGED C31_Touched
    /\ ~enable => UNCHANGED C31_Touched
    /\ (cache["init"] = 0 /\ cache'["init"] = 1) =>
          /\ rinit
          /\ rop = "set_ui_models"
          /\ rpc = "fetched"
          /\ rpc' = "idle"
    /\ (init_calls' # init_calls /\ enable /\ cache["init"] = 0) =>
          /\ rpc' = "cleared"
          /\ rop' = "set_ui_preprocessors"
          /\ rinit'

\* C31: over any sequence of init_tss_ui calls, the 'init' marker is set
\* only at the end of a call in which the preprocessor fetch and the model
\* fetch both succeeded; once it is set no call sends a catalog request or
\* changes global_state; a call in which a fetch raises leaves it unset and
\* the next call starts over; with tss.enable() false a call does nothing.
C31_InitOnce ==
    /\ []C31_Marker
    /\ [][C31_Step]_vars

\* The marker is set, both lists are published, and init_tss_ui has been
\* called again since.
C31_Witness ==
    /\ init_calls = 3
    /\ cache["init"] = 1
    /\ rpc = "idle"
    /\ ui_keys # <<>>
    /\ Len(cn_models) >= 2

\* C32: for every order of render_and_register_unit calls and component
\* notifications, subscribe_for_output_dir runs only with
\* img2img_batch_output_dir set, so no registration ends by taking an
\* attribute of None, and a unit registered before a component appeared
\* has the subscription for it run once the component has arrived.
C32_DeferredSubscriptionSafe ==
    \A u \in Units :
        /\ unit_state[u].how # "raised"
        /\ output_subscribed[u] > 0 => batch_output_dir # None
        /\ (unit_state[u].how # "none" /\ ~unit_state[u].in_set /\ batch_input_dir # None)
              => input_subscribed[u] = 1
        /\ (unit_state[u].how # "none" /\ ~unit_state[u].out_set /\ batch_output_dir # None)
              => output_subscribed[u] = 1

====
